---- MODULE Spec2Model ----
(***************************************************************************)
(* Journey deviation engine and presence registry of the women-safety      *)
(* backend: the socket.io connection handler of src/index.js, the          *)
(* authenticate middleware of src/middleware/auth.js and the four journey  *)
(* routes of routes/journey.js (src/unnamed/part_001), over the user       *)
(* documents of the schema in src/models/Alert.js.                         *)
(* The app-state and battery-status routes of src/routes/accounts.js, which *)
(* publish to rooms, run with the connections under SpecAccounts; the     *)
(* add-child and remove-child routes under SpecFamily; the nearby search   *)
(* and the SOS broadcast under SpecNearby; the journey routes with invalid *)
(* request bodies and failing writes under SpecRobust; the journey and     *)
(* account routes open to both identities under SpecOwner.                 *)
(*                                                                         *)
(* Every HTTP request is a process of its own: authenticate loads a copy   *)
(* of the user document (req.user), the route handler runs without         *)
(* suspension up to its first await, req.user.save() writes the assigned   *)
(* paths to the store, and the code after the await emits and responds.    *)
(* Steps of different requests interleave freely, as do connects,          *)
(* disconnects and the passing of time.                                    *)
(*                                                                         *)
(* Geometry: positions lie on one meridian and are given in metres along   *)
(* it, so that the haversine distance of two positions is the absolute     *)
(* difference of their coordinates; distances are in metres.  Time is in   *)
(* minutes.                                                                *)
(***************************************************************************)
EXTENDS Integers, Sequences, FiniteSets, Bags, TLC

\* ---------------------------------------------------------------- bounds
MaxEvents   == 3        \* connections opened plus HTTP requests received

NoUser     == "none"                \* parentId: null
Users      == {"p", "c"}            \* "p" is a guardian, "c" a traveller
Travellers == {"c"}                 \* the identities that call the journey routes
ParentsOfC == {"p", NoUser}         \* "c" is linked to "p", or to nobody
Null      == 0 - 1                  \* null / undefined number, date or id
Points    == {100, 250, 300}         \* currentLat inputs
Instants  == {0, 5, 6}               \* clock readings, in minutes
FromPoints == {0}                    \* from.coordinates inputs
ToPoints   == {500}                  \* to.coordinates inputs
Paths     == {<<>>, <<0, 500>>}      \* selectedRoutePath inputs
SocketIds == 1 .. MaxEvents
Ops       == {"start", "stop", "deviation-response", "check-deviation"}
AccountOps    == {"app-state", "battery-status"}   \* routes of accounts.js
BatteryLevels == {50}                \* batteryLevel inputs
FamilyUsers   == {"p", "q", "c"}     \* the identities of the linking routes
LinkOps       == {"add-child", "remove-child"}
NearbyOps     == {"nearby", "sos-broadcast"}
ContactOps    == {"add-contact", "update-contact", "delete-contact",
                  "sync-contacts"}
ContactIds    == {"a", "b"}          \* ids the client gives its contacts
MaxContacts   == 2                   \* length of a synced contact list
\* the contact lists a client sends to /contacts/sync
ContactLists  ==
    UNION {[1 .. n -> {[id |-> id, name |-> "x"] : id \in ContactIds}] :
             n \in 0 .. MaxContacts}
StoredContacts == {<<>>, << [id |-> "a", name |-> "x"] >>}
Reporters     == {"c"}               \* the identities that call the nearby routes
Origins       == {1000}              \* latitude inputs of the nearby routes
Radii         == {3000, 5000}        \* radiusKm inputs, in metres
Locations     == {Null, 0, 4000, 6000, 7000}  \* stored currentLocation.latitude
ReporterLocations == {Null, 1000}
UserOrder     == <<"p", "q", "c">>   \* the order in which User.find returns
ChargingFlags == {TRUE}              \* isCharging inputs

\* ------------------------------------------------------------ constants
DEVIATION_THRESHOLD == 200          \* 0.2 km, in metres
SOS_RADIUS          == 5000         \* const radiusKm = 5, in metres
MAX_LATITUDE        == 10000000     \* 90 degrees of latitude, in metres
ESCALATION_MINUTES  == 5
EpochAge            == 1000000      \* minutes from new Date(null) to now

VARIABLES
    users,            \* the users collection: id -> document
    connectedUsers,   \* Map userId -> socketId (Null: no entry)
    sockets,          \* socket id -> [state, userId, rooms]
    reqs,             \* the bag of requests in flight
    issued,           \* connections opened plus requests received so far
    lastResponse,     \* the response sent by the step just taken, if any
    emitted,          \* events handed to io.to(socketId).emit, in order
    now               \* the wall clock, in minutes

vars == <<users, connectedUsers, sockets, reqs, issued, lastResponse, emitted, now>>

\* ------------------------------------------------------------ documents
\* activeJourney defaults of userSchema
DefaultJourney ==
    [ isActive           |-> FALSE,
      from               |-> Null,
      to                 |-> Null,
      selectedRoutePath  |-> <<>>,
      deviationDetected  |-> FALSE,
      deviationAlertSent |-> FALSE,
      deviationAlertTime |-> Null,
      startedAt          |-> Null ]

JourneyFields == DOMAIN DefaultJourney

DeviationPaths == {"deviationDetected", "deviationAlertSent", "deviationAlertTime"}

NoArg == [from |-> Null, to |-> Null, selectedRoutePath |-> <<>>,
          isOkay |-> FALSE, currentLat |-> Null,
          isAppEnabled |-> FALSE, batteryLevel |-> Null, isCharging |-> FALSE,
          accountId |-> NoUser, childId |-> NoUser,
          latitude |-> Null, radiusKm |-> Null,
          fromKind |-> "number", toKind |-> "number",
          currentLatKind |-> "number",
          id |-> "", name |-> "", contacts |-> <<>>]

NoAlertId == <<NoUser, Null>>

NoRes == [status |-> 0, onRoute |-> FALSE, alertSent |-> FALSE,
          alertPending |-> FALSE, parentAlerted |-> FALSE,
          distanceFromRoute |-> Null,
          nearbyUsers |-> <<>>, nearbyUserIds |-> <<>>, alertId |-> NoAlertId]

NoResponse == [user |-> NoUser, op |-> "none", res |-> NoRes]

\* a socket id is unused, live (its socket exists, with userId and rooms) or
\* closed (the socket object is gone; the id is never given out again)
UnusedSocket == [state |-> "unused", userId |-> NoUser, rooms |-> {}]
ClosedSocket == [state |-> "closed", userId |-> NoUser, rooms |-> {}]

\* ------------------------------------------------------ pure functions
Abs(x) == IF x < 0 THEN 0 - x ELSE x

\* calculateDistance, restricted to positions on one meridian
calculateDistance(p1, p2) == Abs(p2 - p1)

RECURSIVE MinDistanceFrom(_, _, _)
RECURSIVE MinDistanceFrom_LastVertex(_, _, _)
MinDistanceFrom_LastVertex(current, path, minDistance) ==
    IF path = <<>> THEN minDistance
    ELSE MinDistanceFrom_LastVertex(current, Tail(path),
                                    calculateDistance(current, Head(path)))

\* the forEach loop of check-deviation: minimum over the vertices
MinDistanceFrom(current, path, minDistance) ==
    IF path = <<>> THEN minDistance
    ELSE LET distance == calculateDistance(current, Head(path))
         IN  MinDistanceFrom(current, Tail(path),
                 IF minDistance = Null \/ distance < minDistance
                 THEN distance ELSE minDistance)

\* Null stands for Infinity, the value of minDistance before the loop
minDistanceToPath(current, path) == MinDistanceFrom(current, path, Null)

IsOffRoute_Inclusive(minDistance) ==
    minDistance = Null \/ minDistance >= DEVIATION_THRESHOLD
\* const isOffRoute = minDistance > DEVIATION_THRESHOLD (Infinity is above it)
IsOffRoute(minDistance) ==
    minDistance = Null \/ minDistance > DEVIATION_THRESHOLD

\* (now - new Date(deviationAlertTime)) / 1000 / 60; new Date(null) is the epoch
MinutesSinceAlert(alertTime, t) ==
    IF alertTime = Null THEN EpochAge + t ELSE t - alertTime

EscalationDue_AtFive(minutesSinceAlert, parentId) ==
    minutesSinceAlert >= ESCALATION_MINUTES /\ parentId # NoUser
\* minutesSinceAlert > 5 && req.user.parentId
EscalationDue(minutesSinceAlert, parentId) ==
    minutesSinceAlert > ESCALATION_MINUTES /\ parentId # NoUser

NoActiveRoute_ActiveOnly(journey) == ~journey.isActive
\* the early return of check-deviation
NoActiveRoute(journey) ==
    ~journey.isActive \/ Len(journey.selectedRoutePath) = 0

FirstAlert_NoDetected(journey, t) ==
    [journey EXCEPT !.deviationAlertSent = TRUE, !.deviationAlertTime = t]
\* first-alert branch of check-deviation
FirstAlert(journey, t) ==
    [journey EXCEPT !.deviationDetected  = TRUE,
                    !.deviationAlertSent = TRUE,
                    !.deviationAlertTime = t]

ClearDeviation_KeepTime(journey) ==
    [journey EXCEPT !.deviationDetected  = FALSE,
                    !.deviationAlertSent = FALSE]
\* isOkay branch of deviation-response
ClearDeviation(journey) ==
    [journey EXCEPT !.deviationDetected  = FALSE,
                    !.deviationAlertSent = FALSE,
                    !.deviationAlertTime = Null]

StartedJourney_NoPath(from, to, selectedRoutePath, t) ==
    [ isActive           |-> TRUE,
      from               |-> from,
      to                 |-> to,
      selectedRoutePath  |-> <<>>,
      deviationDetected  |-> FALSE,
      deviationAlertSent |-> FALSE,
      deviationAlertTime |-> Null,
      startedAt          |-> t ]
\* the journey object assigned by /start
StartedJourney(from, to, selectedRoutePath, t) ==
    [ isActive           |-> TRUE,
      from               |-> from,
      to                 |-> to,
      selectedRoutePath  |-> selectedRoutePath,
      deviationDetected  |-> FALSE,
      deviationAlertSent |-> FALSE,
      deviationAlertTime |-> Null,
      startedAt          |-> t ]

StoppedJourney_KeepsStart ==
    [ isActive           |-> FALSE,
      from               |-> Null,
      to                 |-> Null,
      selectedRoutePath  |-> <<>>,
      deviationDetected  |-> FALSE,
      deviationAlertSent |-> FALSE,
      deviationAlertTime |-> Null,
      startedAt          |-> 0 ]
\* the journey object assigned by /stop
StoppedJourney ==
    [ isActive           |-> FALSE,
      from               |-> Null,
      to                 |-> Null,
      selectedRoutePath  |-> <<>>,
      deviationDetected  |-> FALSE,
      deviationAlertSent |-> FALSE,
      deviationAlertTime |-> Null,
      startedAt          |-> Null ]

RoomsOf_LinksOnly(userId, doc) ==
    (IF doc.parentId # NoUser THEN {<<"parent", doc.parentId>>} ELSE {})
      \cup {<<"child", childId>> : childId \in doc.children}
RoomsOf_NoOwnChildRoom(userId, doc) ==
    {<<"user", userId>>}
      \cup (IF doc.parentId # NoUser THEN {<<"parent", doc.parentId>>} ELSE {})
      \cup {<<"child", childId>> : childId \in doc.children}
\* rooms joined by the connection handler
RoomsOf(userId, doc) ==
    {<<"user", userId>>}
      \cup (IF doc.parentId # NoUser THEN {<<"parent", doc.parentId>>} ELSE {})
      \cup {<<"child", childId>> : childId \in doc.children}
      \cup {<<"child", userId>>}

\* if (parentSocketId) io.to(parentSocketId).emit(event, {childId, ...})
EmitToParent_Never(event, parentSocketId, childId) == <<>>
EmitToParent_Unguarded(event, parentSocketId, childId) ==
    << [event |-> event, to |-> parentSocketId, childId |-> childId] >>
EmitToParent(event, parentSocketId, childId) ==
    IF parentSocketId # Null
    THEN << [event |-> event, to |-> parentSocketId, childId |-> childId] >>
    ELSE <<>>

\* connectedUsers.get(req.user.parentId.toString())
ParentSocketId(parentId) ==
    IF parentId = NoUser THEN Null ELSE connectedUsers[parentId]

SavedJourney_WholeDocument(stored, doc, modified) == doc
\* the paths of activeJourney that save() writes
SavedJourney(stored, doc, modified) ==
    IF "activeJourney" \in modified THEN doc
    ELSE [f \in JourneyFields |-> IF f \in modified THEN doc[f] ELSE stored[f]]

\* The users collection outlives the server process: when the process starts,
\* a traveller's stored journey is any record an earlier run has written
\* (here: at instant 0): never started, started, or started and first-alerted.
StoredJourneys ==
    {DefaultJourney}
      \cup {StartedJourney(f, t, path, 0) :
               f \in FromPoints, t \in ToPoints, path \in Paths}
      \cup {FirstAlert(StartedJourney(f, t, path, 0), 0) :
               f \in FromPoints, t \in ToPoints, path \in Paths \ {<<>>}}

\* ----------------------------------------------------------------- Init
Init ==
    /\ \E parent \in ParentsOfC, journey \in StoredJourneys :
         users = [u \in Users |->
                   [ parentId      |-> IF u = "c" THEN parent ELSE NoUser,
                     children      |-> IF u = parent THEN {"c"} ELSE {},
                     isAppEnabled     |-> TRUE,
                     batteryLevel     |-> 100,
                     isCharging       |-> FALSE,
                     batteryUpdatedAt |-> Null,
                     currentLocation  |-> Null,
                     activeJourney |-> IF u \in Travellers THEN journey
                                       ELSE DefaultJourney ]]
    /\ connectedUsers = [u \in Users |-> Null]
    /\ sockets = [s \in SocketIds |-> UnusedSocket]
    /\ reqs = EmptyBag
    /\ issued = 0
    /\ lastResponse = NoResponse
    /\ emitted = <<>>
    /\ now = 0

\* -------------------------------------------------------------- sockets
Connect_FirstWins(userId) ==
    /\ issued < MaxEvents
    /\ issued' = issued + 1
    /\ \E s \in SocketIds :
         /\ sockets[s].state = "unused"
         /\ \A t \in SocketIds : t < s => sockets[t].state # "unused"
         /\ connectedUsers' =
               IF connectedUsers[userId] = Null
               THEN [connectedUsers EXCEPT ![userId] = s]
               ELSE connectedUsers
         /\ sockets' = [sockets EXCEPT ![s] =
                          [state |-> "live", userId |-> userId,
                           rooms |-> RoomsOf(userId, users[userId])]]
    /\ lastResponse' = NoResponse
    /\ UNCHANGED <<users, reqs, emitted, now>>
\* io.on('connection')
Connect(userId) ==
    /\ issued < MaxEvents
    /\ issued' = issued + 1
    /\ \E s \in SocketIds :
         /\ sockets[s].state = "unused"
         /\ \A t \in SocketIds : t < s => sockets[t].state # "unused"
         /\ connectedUsers' = [connectedUsers EXCEPT ![userId] = s]
         /\ sockets' = [sockets EXCEPT ![s] =
                          [state |-> "live", userId |-> userId,
                           rooms |-> RoomsOf(userId, users[userId])]]
    /\ lastResponse' = NoResponse
    /\ UNCHANGED <<users, reqs, emitted, now>>

Disconnect_KeepsEntry(s) ==
    /\ sockets[s].state = "live"
    /\ sockets' = [sockets EXCEPT ![s] = ClosedSocket]
    /\ lastResponse' = NoResponse
    /\ UNCHANGED <<users, connectedUsers, reqs, issued, emitted, now>>


\* socket.on('disconnect')
Disconnect(s) ==
    /\ sockets[s].state = "live"
    /\ connectedUsers' = [connectedUsers EXCEPT ![sockets[s].userId] = Null]
    /\ sockets' = [sockets EXCEPT ![s] = ClosedSocket]
    /\ lastResponse' = NoResponse
    /\ UNCHANGED <<users, reqs, issued, emitted, now>>

\* ------------------------------------------------------------- requests
OpArgs(op) ==
    CASE op = "start" ->
           {[NoArg EXCEPT !.from = f, !.to = t, !.selectedRoutePath = path] :
              f \in FromPoints, t \in ToPoints, path \in Paths}
      [] op = "stop" -> {NoArg}
      [] op = "deviation-response" ->
           {[NoArg EXCEPT !.isOkay = b] : b \in BOOLEAN}
      [] op = "check-deviation" ->
           {[NoArg EXCEPT !.currentLat = lat] : lat \in Points}
      [] op = "app-state" ->
           {[NoArg EXCEPT !.isAppEnabled = b] : b \in BOOLEAN}
      [] op = "battery-status" ->
           {[NoArg EXCEPT !.batteryLevel = l, !.isCharging = b] :
              l \in BatteryLevels, b \in ChargingFlags}
      [] op = "location" ->
           {[NoArg EXCEPT !.latitude = lat] : lat \in Origins}
      [] op = "nearby" ->
           {[NoArg EXCEPT !.latitude = lat, !.radiusKm = radius] :
              lat \in Origins, radius \in Radii}
      [] op = "sos-broadcast" ->
           {[NoArg EXCEPT !.latitude = lat] : lat \in Origins}
      [] op = "add-contact" ->
           {[NoArg EXCEPT !.id = id, !.name = "x"] : id \in ContactIds}
      [] op = "update-contact" ->
           {[NoArg EXCEPT !.id = id, !.name = "y"] : id \in ContactIds}
      [] op = "delete-contact" ->
           {[NoArg EXCEPT !.id = id] : id \in ContactIds}
      [] op = "sync-contacts" ->
           {[NoArg EXCEPT !.contacts = contacts] : contacts \in ContactLists}
      [] op = "add-child" ->
           {[NoArg EXCEPT !.accountId = t] : t \in FamilyUsers}
      [] op = "remove-child" ->
           {[NoArg EXCEPT !.childId = t] : t \in FamilyUsers}

\* the request r goes on as request q
Continue(r, q) == reqs' = (reqs (-) SetToBag({r})) (+) SetToBag({q})

\* sendSuccess / sendError: the request r ends with response res
Respond(r, res) ==
    /\ lastResponse' = [user |-> r.user, op |-> r.op, res |-> res]
    /\ reqs' = reqs (-) SetToBag({r})

\* authenticate: req.user = await User.findById(decoded.sub)
Authenticate(userId, op, arg) ==
    /\ issued < MaxEvents
    /\ issued' = issued + 1
    /\ reqs' = reqs (+) SetToBag({[pc |-> "handler", user |-> userId, op |-> op,
                                   arg |-> arg, doc |-> users[userId],
                                   modified |-> {}, alertId |-> NoAlertId]})
    /\ lastResponse' = NoResponse
    /\ UNCHANGED <<users, connectedUsers, sockets, emitted, now>>

\* body(...).isFloat({ min: -90, max: 90 }): the text of the value is a
\* number within the range
isFloat(kind, value) ==
    /\ kind \in {"number", "numeric-string"}
    /\ 0 - MAX_LATITUDE <= value /\ value <= MAX_LATITUDE

validateCoordinates_AnyType(kind, lat) ==
    0 - MAX_LATITUDE <= lat /\ lat <= MAX_LATITUDE

\* validateCoordinates: typeof number and within the range
validateCoordinates(kind, lat) ==
    /\ kind = "number"
    /\ 0 - MAX_LATITUDE <= lat /\ lat <= MAX_LATITUDE

\* POST /start up to await req.user.save(), or its 400
StartHandler(r) ==
    /\ r.pc = "handler" /\ r.op = "start"
    /\ IF \/ ~isFloat(r.arg.fromKind, r.arg.from)
          \/ ~isFloat(r.arg.toKind, r.arg.to)
          \/ ~validateCoordinates(r.arg.fromKind, r.arg.from)
          \/ ~validateCoordinates(r.arg.toKind, r.arg.to)
       THEN Respond(r, [NoRes EXCEPT !.status = 400])
       ELSE /\ Continue(r, [r EXCEPT
                              !.doc.activeJourney =
                                  StartedJourney(r.arg.from, r.arg.to,
                                                 r.arg.selectedRoutePath, now),
                              !.modified = {"activeJourney"},
                              !.pc = "saving"])
            /\ lastResponse' = NoResponse
    /\ UNCHANGED <<users, connectedUsers, sockets, issued, emitted, now>>

\* POST /stop up to await req.user.save()
StopHandler(r) ==
    /\ r.pc = "handler" /\ r.op = "stop"
    /\ Continue(r, [r EXCEPT !.doc.activeJourney = StoppedJourney,
                             !.modified = {"activeJourney"},
                             !.pc = "saving"])
    /\ lastResponse' = NoResponse
    /\ UNCHANGED <<users, connectedUsers, sockets, issued, emitted, now>>

DeviationResponseHandler_AnyAnswer(r) ==
    /\ r.pc = "handler" /\ r.op = "deviation-response"
    /\ Continue(r, [r EXCEPT !.doc.activeJourney = ClearDeviation(@),
                             !.modified = DeviationPaths,
                             !.pc = "saving"])
    /\ lastResponse' = NoResponse
    /\ UNCHANGED <<users, connectedUsers, sockets, issued, emitted, now>>
\* POST /deviation-response up to await req.user.save(), or its 400
DeviationResponseHandler(r) ==
    /\ r.pc = "handler" /\ r.op = "deviation-response"
    /\ IF r.arg.isOkay
       THEN /\ Continue(r, [r EXCEPT !.doc.activeJourney = ClearDeviation(@),
                                     !.modified = DeviationPaths,
                                     !.pc = "saving"])
            /\ lastResponse' = NoResponse
       ELSE Respond(r, [NoRes EXCEPT !.status = 400])
    /\ UNCHANGED <<users, connectedUsers, sockets, issued, emitted, now>>

\* the four response bodies of check-deviation
OnRouteRes(minDistance) ==
    [NoRes EXCEPT !.status = 200, !.onRoute = TRUE,
                  !.distanceFromRoute = minDistance]

AlertSentRes(minDistance) ==
    [NoRes EXCEPT !.status = 200, !.distanceFromRoute = minDistance,
                  !.alertSent = TRUE]

ParentAlertedRes(minDistance) ==
    [NoRes EXCEPT !.status = 200, !.distanceFromRoute = minDistance,
                  !.parentAlerted = TRUE]

AlertPendingRes(minDistance) ==
    [NoRes EXCEPT !.status = 200, !.distanceFromRoute = minDistance,
                  !.alertPending = TRUE]

CheckDeviationHandler_OnRouteClears(r) ==
    /\ r.pc = "handler" /\ r.op = "check-deviation"
    /\ LET journey     == r.doc.activeJourney
           parentId    == r.doc.parentId
           minDistance == minDistanceToPath(r.arg.currentLat,
                                            journey.selectedRoutePath)
           isOffRoute  == IsOffRoute(minDistance)
           minutesSinceAlert == MinutesSinceAlert(journey.deviationAlertTime, now)
       IN
       IF \/ ~isFloat(r.arg.currentLatKind, r.arg.currentLat)
          \/ ~validateCoordinates(r.arg.currentLatKind, r.arg.currentLat)
       THEN /\ Respond(r, [NoRes EXCEPT !.status = 400])
            /\ emitted' = emitted
       ELSE IF NoActiveRoute(journey)
       THEN /\ Respond(r, OnRouteRes(Null))
            /\ emitted' = emitted
       ELSE IF isOffRoute /\ ~journey.deviationAlertSent
       THEN /\ Continue(r, [r EXCEPT
                              !.doc.activeJourney = FirstAlert(journey, now),
                              !.modified = DeviationPaths,
                              !.pc = "saving"])
            /\ lastResponse' = NoResponse
            /\ emitted' = emitted
       ELSE IF isOffRoute /\ journey.deviationAlertSent
       THEN IF EscalationDue(minutesSinceAlert, parentId)
            THEN /\ emitted' = emitted \o
                       EmitToParent("child-deviation-alert",
                                    ParentSocketId(parentId), r.user)
                 /\ Respond(r, ParentAlertedRes(minDistance))
            ELSE /\ emitted' = emitted
                 /\ Respond(r, AlertPendingRes(minDistance))
       ELSE IF journey.deviationAlertSent
       THEN /\ Continue(r, [r EXCEPT
                              !.doc.activeJourney = ClearDeviation(journey),
                              !.modified = DeviationPaths,
                              !.pc = "saving"])
            /\ lastResponse' = NoResponse
            /\ emitted' = emitted
       ELSE /\ emitted' = emitted
            /\ Respond(r, OnRouteRes(minDistance))
    /\ UNCHANGED <<users, connectedUsers, sockets, issued, now>>

\* POST /check-deviation up to await req.user.save(), or to its response
CheckDeviationHandler(r) ==
    /\ r.pc = "handler" /\ r.op = "check-deviation"
    /\ LET journey     == r.doc.activeJourney
           parentId    == r.doc.parentId
           minDistance == minDistanceToPath(r.arg.currentLat,
                                            journey.selectedRoutePath)
           isOffRoute  == IsOffRoute(minDistance)
           minutesSinceAlert == MinutesSinceAlert(journey.deviationAlertTime, now)
       IN
       IF \/ ~isFloat(r.arg.currentLatKind, r.arg.currentLat)
          \/ ~validateCoordinates(r.arg.currentLatKind, r.arg.currentLat)
       THEN /\ Respond(r, [NoRes EXCEPT !.status = 400])
            /\ emitted' = emitted
       ELSE IF NoActiveRoute(journey)
       THEN /\ Respond(r, OnRouteRes(Null))
            /\ emitted' = emitted
       ELSE IF isOffRoute /\ ~journey.deviationAlertSent
       THEN /\ Continue(r, [r EXCEPT
                              !.doc.activeJourney = FirstAlert(journey, now),
                              !.modified = DeviationPaths,
                              !.pc = "saving"])
            /\ lastResponse' = NoResponse
            /\ emitted' = emitted
       ELSE IF isOffRoute /\ journey.deviationAlertSent
       THEN IF EscalationDue(minutesSinceAlert, parentId)
            THEN /\ emitted' = emitted \o
                       EmitToParent("child-deviation-alert",
                                    ParentSocketId(parentId), r.user)
                 /\ Respond(r, ParentAlertedRes(minDistance))
            ELSE /\ emitted' = emitted
                 /\ Respond(r, AlertPendingRes(minDistance))
       ELSE /\ emitted' = emitted
            /\ Respond(r, OnRouteRes(minDistance))
    /\ UNCHANGED <<users, connectedUsers, sockets, issued, now>>

\* await req.user.save() of /start and /stop: the store applies the write
Save(r) ==
    /\ r.pc = "saving" /\ r.op \in {"start", "stop"}
    /\ users' = [users EXCEPT ![r.user].activeJourney =
                   SavedJourney(@, r.doc.activeJourney, r.modified)]
    /\ Continue(r, [r EXCEPT !.pc = "saved"])
    /\ lastResponse' = NoResponse
    /\ UNCHANGED <<connectedUsers, sockets, issued, emitted, now>>

\* POST /start after the await: notify the parent and respond
StartAfterSave(r) ==
    /\ r.pc = "saved" /\ r.op = "start"
    /\ emitted' = emitted \o
          EmitToParent("child-journey-started",
                       ParentSocketId(r.doc.parentId), r.user)
    /\ Respond(r, [NoRes EXCEPT !.status = 200])
    /\ UNCHANGED <<users, connectedUsers, sockets, issued, now>>

\* POST /stop after the await: notify the parent and respond
StopAfterSave(r) ==
    /\ r.pc = "saved" /\ r.op = "stop"
    /\ emitted' = emitted \o
          EmitToParent("child-journey-stopped",
                       ParentSocketId(r.doc.parentId), r.user)
    /\ Respond(r, [NoRes EXCEPT !.status = 200])
    /\ UNCHANGED <<users, connectedUsers, sockets, issued, now>>

\* POST /deviation-response from await req.user.save() on: the store applies
\* the write and the response is sent (the code after the await only responds)
DeviationResponseSave(r) ==
    /\ r.pc = "saving" /\ r.op = "deviation-response"
    /\ users' = [users EXCEPT ![r.user].activeJourney =
                   SavedJourney(@, r.doc.activeJourney, r.modified)]
    /\ Respond(r, [NoRes EXCEPT !.status = 200])
    /\ UNCHANGED <<connectedUsers, sockets, issued, emitted, now>>

\* POST /check-deviation first-alert branch from await req.user.save() on
CheckDeviationSave(r) ==
    /\ r.pc = "saving" /\ r.op = "check-deviation"
    /\ users' = [users EXCEPT ![r.user].activeJourney =
                   SavedJourney(@, r.doc.activeJourney, r.modified)]
    /\ Respond(r, AlertSentRes(minDistanceToPath(r.arg.currentLat,
                                  r.doc.activeJourney.selectedRoutePath)))
    /\ UNCHANGED <<connectedUsers, sockets, issued, emitted, now>>

\* ------------------------------------------------------------- accounts
\* the live connections enrolled in a room
RoomMembers(room) ==
    {s \in SocketIds : sockets[s].state = "live" /\ room \in sockets[s].rooms}

RECURSIVE EmitToSockets(_, _, _)
EmitToSockets(event, members, id) ==
    IF members = {} THEN <<>>
    ELSE LET s == CHOOSE m \in members : \A n \in members : m <= n
         IN  << [event |-> event, to |-> s, childId |-> id] >>
               \o EmitToSockets(event, members \ {s}, id)

\* io.to(room).emit(event, {...}): one delivery per enrolled connection; the
\* field childId holds the id the payload names (userId, childId or parentId)
EmitToRoom(event, room, id) == EmitToSockets(event, RoomMembers(room), id)

\* req.user.children.forEach: both rooms of every child
RECURSIVE EmitToChildren(_, _, _)
EmitToChildren(event, children, id) ==
    IF children = {} THEN <<>>
    ELSE LET childId == CHOOSE c \in children : TRUE
         IN  EmitToRoom(event, <<"child", childId>>, id)
               \o EmitToRoom(event, <<"user", childId>>, id)
               \o EmitToChildren(event, children \ {childId}, id)

\* PUT /app-state up to await req.user.save()
AppStateHandler(r) ==
    /\ r.pc = "handler" /\ r.op = "app-state"
    /\ Continue(r, [r EXCEPT !.doc.isAppEnabled = r.arg.isAppEnabled,
                             !.modified = {"isAppEnabled"},
                             !.pc = "saving"])
    /\ lastResponse' = NoResponse
    /\ UNCHANGED <<users, connectedUsers, sockets, issued, emitted, now>>

\* POST /battery-status up to await req.user.save()
BatteryStatusHandler(r) ==
    /\ r.pc = "handler" /\ r.op = "battery-status"
    /\ Continue(r, [r EXCEPT !.doc.batteryLevel = r.arg.batteryLevel,
                             !.doc.isCharging = r.arg.isCharging,
                             !.doc.batteryUpdatedAt = now,
                             !.modified = {"batteryLevel", "isCharging",
                                           "batteryUpdatedAt"},
                             !.pc = "saving"])
    /\ lastResponse' = NoResponse
    /\ UNCHANGED <<users, connectedUsers, sockets, issued, emitted, now>>

AccountSave_WholeDocument(r) ==
    /\ r.pc = "saving" /\ r.op \in AccountOps \cup {"location"}
    /\ users' = [users EXCEPT ![r.user] = r.doc]
    /\ Continue(r, [r EXCEPT !.pc = "saved"])
    /\ lastResponse' = NoResponse
    /\ UNCHANGED <<connectedUsers, sockets, issued, emitted, now>>

\* await req.user.save() of /app-state, /battery-status and /location
AccountSave(r) ==
    /\ r.pc = "saving" /\ r.op \in AccountOps \cup {"location"}
    /\ users' = [users EXCEPT ![r.user] =
                   [f \in DOMAIN @ |-> IF f \in r.modified THEN r.doc[f] ELSE @[f]]]
    /\ Continue(r, [r EXCEPT !.pc = "saved"])
    /\ lastResponse' = NoResponse
    /\ UNCHANGED <<connectedUsers, sockets, issued, emitted, now>>

\* PUT /app-state after the await: the three broadcasts and the response
AppStateAfterSave(r) ==
    /\ r.pc = "saved" /\ r.op = "app-state"
    /\ emitted' = emitted
          \o EmitToRoom("app-state-changed", <<"user", r.user>>, r.user)
          \o (IF r.doc.parentId # NoUser
              THEN EmitToRoom("child-app-state-changed",
                              <<"parent", r.doc.parentId>>, r.user)
              ELSE <<>>)
          \o EmitToChildren("parent-app-state-changed", r.doc.children, r.user)
    /\ Respond(r, [NoRes EXCEPT !.status = 200])
    /\ UNCHANGED <<users, connectedUsers, sockets, issued, now>>

\* POST /battery-status after the await: notify the parent and respond
BatteryStatusAfterSave(r) ==
    /\ r.pc = "saved" /\ r.op = "battery-status"
    /\ emitted' = emitted
          \o (IF r.doc.parentId # NoUser
              THEN EmitToRoom("child-battery-updated",
                              <<"parent", r.doc.parentId>>, r.user)
              ELSE <<>>)
    /\ Respond(r, [NoRes EXCEPT !.status = 200])
    /\ UNCHANGED <<users, connectedUsers, sockets, issued, now>>

\* the wall clock advances to the next instant
Tick ==
    /\ \E t \in Instants :
         /\ t > now
         /\ \A i \in Instants : i > now => t <= i
         /\ now' = t
    /\ lastResponse' = NoResponse
    /\ UNCHANGED <<users, connectedUsers, sockets, reqs, issued, emitted>>

Next ==
    \/ \E u \in Users : Connect(u)
    \/ \E s \in SocketIds : Disconnect(s)
    \/ \E u \in Travellers, op \in Ops : \E arg \in OpArgs(op) : Authenticate(u, op, arg)
    \/ \E r \in BagToSet(reqs) : StartHandler(r)
    \/ \E r \in BagToSet(reqs) : StopHandler(r)
    \/ \E r \in BagToSet(reqs) : DeviationResponseHandler(r)
    \/ \E r \in BagToSet(reqs) : CheckDeviationHandler(r)
    \/ \E r \in BagToSet(reqs) : Save(r)
    \/ \E r \in BagToSet(reqs) : StartAfterSave(r)
    \/ \E r \in BagToSet(reqs) : StopAfterSave(r)
    \/ \E r \in BagToSet(reqs) : DeviationResponseSave(r)
    \/ \E r \in BagToSet(reqs) : CheckDeviationSave(r)
    \/ Tick

Spec == Init /\ [][Next]_vars

\* the connections and the account routes, without the journey routes
NextAccounts ==
    \/ \E u \in Users : Connect(u)
    \/ \E s \in SocketIds : Disconnect(s)
    \/ \E u \in Users, op \in AccountOps : \E arg \in OpArgs(op) : Authenticate(u, op, arg)
    \/ \E r \in BagToSet(reqs) : AppStateHandler(r)
    \/ \E r \in BagToSet(reqs) : BatteryStatusHandler(r)
    \/ \E r \in BagToSet(reqs) : AccountSave(r)
    \/ \E r \in BagToSet(reqs) : AppStateAfterSave(r)
    \/ \E r \in BagToSet(reqs) : BatteryStatusAfterSave(r)
    \/ Tick

SpecAccounts == Init /\ [][NextAccounts]_vars

TypeOK ==
    /\ now \in Instants
    /\ issued \in 0 .. MaxEvents
    /\ \A u \in Users : connectedUsers[u] \in SocketIds \cup {Null}
    /\ \A r \in BagToSet(reqs) : r.pc \in {"handler", "saving", "saved"}

\* ------------------------------------------------------- claim vocabulary
Journey(u) == users[u].activeJourney

\* the distance a check-deviation call r computes from the record it loaded
CallDistance(r) ==
    minDistanceToPath(r.arg.currentLat, r.doc.activeJourney.selectedRoutePath)

\* r is a check-deviation call about to decide, on an active journey with a path
DecidingCheck(r) ==
    /\ r.pc = "handler" /\ r.op = "check-deviation"
    /\ r.doc.activeJourney.isActive
    /\ r.doc.activeJourney.selectedRoutePath # <<>>

\* minutes from the deviationAlertTime the call loaded to the present
CallElapsed(r) == now - r.doc.activeJourney.deviationAlertTime

\* the step appends exactly the events evs to the emitted ones
Publishes(evs) == emitted' = emitted \o evs

DeviationAlert(to, childId) ==
    [event |-> "child-deviation-alert", to |-> to, childId |-> childId]

\* ------------------------------------------------------------------ C1
\* C1: a disconnect changes the registry only when the disconnecting
\* connection is the one currently registered for its identity; when a stale
\* connection of X disconnects, lookup(X) still returns the newer one.
C1_StaleDisconnectKeepsNewer ==
    [][\A s \in SocketIds :
         (/\ sockets[s].state = "live"
          /\ sockets'[s].state = "closed"
          /\ connectedUsers[sockets[s].userId] # s)
         => connectedUsers' = connectedUsers]_vars

\* ------------------------------------------------------------------ C2
\* C2: check-deviation calls of one traveller are serialised: the first-alert
\* write of a call never lands on a record whose deviationAlertSent another
\* call has set since this call loaded it (no second first alert, no
\* overwritten deviationAlertTime).
C2_ChecksSerialised ==
    [][\A r \in BagToSet(reqs) :
         CheckDeviationSave(r) => ~Journey(r.user).deviationAlertSent]_vars

\* ------------------------------------------------------------------ C3
\* C3: an off-route call with deviationAlertSent set and more than 5 minutes
\* after deviationAlertTime returns parentAlerted exactly when the traveller's
\* parent has a connection in the registry, and alertPending otherwise.
C3_ParentAlertedIffParentConnected ==
    [][\A r \in BagToSet(reqs) :
         (/\ CheckDeviationHandler(r)
          /\ DecidingCheck(r)
          /\ CallDistance(r) > DEVIATION_THRESHOLD
          /\ r.doc.activeJourney.deviationAlertSent
          /\ CallElapsed(r) > ESCALATION_MINUTES)
         => /\ lastResponse'.res.parentAlerted
                  <=> ParentSocketId(r.doc.parentId) # Null
            /\ ParentSocketId(r.doc.parentId) = Null
                  => lastResponse'.res.alertPending]_vars

C5_AlertTimeIffAlertSent ==
    \A u \in Users :
       (Journey(u).deviationAlertTime # Null) <=> Journey(u).deviationAlertSent

\* a confirmatory response has just cleared the record while another call,
\* which loaded the record with the alert still set, is in flight
C5_Witness ==
    /\ lastResponse.op = "deviation-response"
    /\ lastResponse.res.status = 200
    /\ ~Journey(lastResponse.user).deviationAlertSent
    /\ Journey(lastResponse.user).deviationAlertTime = Null
    /\ \E q \in BagToSet(reqs) :
          /\ q.user = lastResponse.user
          /\ q.doc.activeJourney.deviationAlertSent

\* ------------------------------------------------------------------ C6
\* C6: a check-deviation call that sees an active journey with a path, a
\* distance above 0.2 km and deviationAlertSent false sets deviationDetected,
\* deviationAlertSent and deviationAlertTime = now in its record, writes
\* exactly these three fields, answers onRoute=false with alertSent=true and
\* publishes no event in any of its steps.
C6_FirstAlert ==
    [][/\ \A r \in BagToSet(reqs) :
            (/\ CheckDeviationHandler(r)
             /\ DecidingCheck(r)
             /\ CallDistance(r) > DEVIATION_THRESHOLD
             /\ ~r.doc.activeJourney.deviationAlertSent)
            => /\ Publishes(<<>>)
               /\ lastResponse' = NoResponse
               /\ users' = users
               /\ Continue(r, [r EXCEPT
                     !.pc = "saving",
                     !.modified = DeviationPaths,
                     !.doc.activeJourney =
                         [r.doc.activeJourney EXCEPT
                            !.deviationDetected  = TRUE,
                            !.deviationAlertSent = TRUE,
                            !.deviationAlertTime = now]])
       /\ \A r \in BagToSet(reqs) :
            CheckDeviationSave(r)
            => /\ Publishes(<<>>)
               /\ users' = [users EXCEPT ![r.user].activeJourney =
                     [@ EXCEPT
                        !.deviationDetected  = TRUE,
                        !.deviationAlertSent = TRUE,
                        !.deviationAlertTime =
                            r.doc.activeJourney.deviationAlertTime]]
               /\ r.doc.activeJourney.deviationAlertTime # Null
               /\ lastResponse'.res.status = 200
               /\ ~lastResponse'.res.onRoute
               /\ lastResponse'.res.alertSent
               /\ ~lastResponse'.res.alertPending
               /\ ~lastResponse'.res.parentAlerted]_vars

\* a first alert has just been answered while the parent is connected, and
\* nothing has been published
C6_Witness ==
    /\ lastResponse.op = "check-deviation"
    /\ lastResponse.res.alertSent
    /\ Journey(lastResponse.user).deviationDetected
    /\ Journey(lastResponse.user).deviationAlertSent
    /\ users[lastResponse.user].parentId # NoUser
    /\ connectedUsers[users[lastResponse.user].parentId] # Null
    /\ emitted = <<>>

\* ------------------------------------------------------------------ C7
\* C7: an off-route call with deviationAlertSent set and at most 5 minutes
\* (5 included) since deviationAlertTime answers onRoute=false with
\* alertPending=true, publishes nothing and leaves the store unchanged.
C7_PendingWithinWindow ==
    [][\A r \in BagToSet(reqs) :
         (/\ CheckDeviationHandler(r)
          /\ DecidingCheck(r)
          /\ CallDistance(r) > DEVIATION_THRESHOLD
          /\ r.doc.activeJourney.deviationAlertSent
          /\ r.doc.activeJourney.deviationAlertTime # Null
          /\ CallElapsed(r) <= ESCALATION_MINUTES)
         => /\ lastResponse'.res = AlertPendingRes(CallDistance(r))
            /\ ~lastResponse'.res.onRoute
            /\ ~lastResponse'.res.parentAlerted
            /\ Publishes(<<>>)
            /\ users' = users]_vars

\* answered alertPending exactly 5 minutes after the alert, parent connected
C7_Witness ==
    /\ lastResponse.op = "check-deviation"
    /\ lastResponse.res.alertPending
    /\ Journey(lastResponse.user).deviationAlertSent
    /\ now - Journey(lastResponse.user).deviationAlertTime = ESCALATION_MINUTES
    /\ users[lastResponse.user].parentId # NoUser
    /\ connectedUsers[users[lastResponse.user].parentId] # Null

\* ------------------------------------------------------------------ C8
\* C8: every off-route call with deviationAlertSent set, more than 5 minutes
\* since deviationAlertTime and a registered parent connection publishes one
\* further child-deviation-alert and leaves the store unchanged.
C8_EscalationRepeats ==
    [][\A r \in BagToSet(reqs) :
         (/\ CheckDeviationHandler(r)
          /\ DecidingCheck(r)
          /\ CallDistance(r) > DEVIATION_THRESHOLD
          /\ r.doc.activeJourney.deviationAlertSent
          /\ r.doc.activeJourney.deviationAlertTime # Null
          /\ CallElapsed(r) > ESCALATION_MINUTES
          /\ ParentSocketId(r.doc.parentId) # Null)
         => /\ Publishes(<< DeviationAlert(connectedUsers[r.doc.parentId], r.user) >>)
            /\ users' = users
            /\ lastResponse'.res.parentAlerted]_vars

\* two alerts have been published for one and the same stored alert
C8_Witness ==
    \E i, j \in 1 .. Len(emitted) :
       /\ i < j
       /\ emitted[i].event = "child-deviation-alert"
       /\ emitted[j].event = "child-deviation-alert"
       /\ emitted[i].childId = emitted[j].childId
       /\ Journey(emitted[i].childId).deviationAlertSent
       /\ Journey(emitted[i].childId).deviationAlertTime = 0

\* ------------------------------------------------------------------ C9
\* an on-route call (distance at most 0.2 km, active journey) answers
\* onRoute=true and changes nothing in the store
OnRouteCallKeepsRecord ==
    \A r \in BagToSet(reqs) :
       (/\ CheckDeviationHandler(r)
        /\ DecidingCheck(r)
        /\ CallDistance(r) <= DEVIATION_THRESHOLD)
       => /\ lastResponse'.res = OnRouteRes(CallDistance(r))
          /\ lastResponse'.res.onRoute
          /\ Publishes(<<>>)
          /\ users' = users

\* the step clears a stored deviation flag of u
ClearsFlag(u) ==
    \/ Journey(u).deviationDetected  /\ ~users'[u].activeJourney.deviationDetected
    \/ Journey(u).deviationAlertSent /\ ~users'[u].activeJourney.deviationAlertSent
    \/ Journey(u).deviationAlertTime # Null
         /\ users'[u].activeJourney.deviationAlertTime = Null

\* C9 as claimed: an on-route call leaves the record as it is, and the flags
\* go from set to cleared only in the write of respondOkay(true) or of stop.
C9_FlagsClearOnlyByResponseOrStop ==
    [][/\ OnRouteCallKeepsRecord
       /\ \A u \in Users :
            ClearsFlag(u) =>
              \E r \in BagToSet(reqs) :
                 /\ r.user = u
                 /\ \/ DeviationResponseSave(r)
                    \/ Save(r) /\ r.op = "stop"]_vars

\* C9 as amended: an on-route call leaves the record as it is, and the flags
\* go from set to cleared only in the write of respondOkay(true), of stop or
\* of start.
C9_FlagsClearOnlyByResponseStopOrStart ==
    [][/\ OnRouteCallKeepsRecord
       /\ \A u \in Users :
            ClearsFlag(u) =>
              \E r \in BagToSet(reqs) :
                 /\ r.user = u
                 /\ \/ DeviationResponseSave(r)
                    \/ Save(r) /\ r.op \in {"stop", "start"}]_vars

\* answered onRoute at exactly 0.2 km while the stored alert stays set
C9_Witness ==
    /\ lastResponse.op = "check-deviation"
    /\ lastResponse.res.onRoute
    /\ lastResponse.res.distanceFromRoute = DEVIATION_THRESHOLD
    /\ Journey(lastResponse.user).deviationDetected
    /\ Journey(lastResponse.user).deviationAlertSent
    /\ Journey(lastResponse.user).deviationAlertTime # Null

\* ------------------------------------------------------------------ C10
\* C10: respondOkay(true) changes nothing before its write, and its write
\* sets deviationDetected=false, deviationAlertSent=false and
\* deviationAlertTime=null in the stored record and leaves isActive, from,
\* to, selectedRoutePath and startedAt as they are stored.
C10_RespondOkayClearsOnlyDeviation ==
    [][/\ \A r \in BagToSet(reqs) :
            (DeviationResponseHandler(r) /\ r.arg.isOkay)
            => users' = users /\ Publishes(<<>>)
       /\ \A r \in BagToSet(reqs) :
            DeviationResponseSave(r)
            => /\ users' = [users EXCEPT ![r.user].activeJourney =
                     [@ EXCEPT
                        !.deviationDetected  = FALSE,
                        !.deviationAlertSent = FALSE,
                        !.deviationAlertTime = Null]]
               /\ lastResponse'.res.status = 200
               /\ Publishes(<<>>)]_vars

\* the response has just cleared an alert (another call in flight still holds
\* the record with the alert set) and the journey is still the active one
C10_Witness ==
    /\ lastResponse.op = "deviation-response"
    /\ lastResponse.res.status = 200
    /\ Journey(lastResponse.user).isActive
    /\ Journey(lastResponse.user).startedAt # Null
    /\ Journey(lastResponse.user).selectedRoutePath # <<>>
    /\ ~Journey(lastResponse.user).deviationDetected
    /\ ~Journey(lastResponse.user).deviationAlertSent
    /\ Journey(lastResponse.user).deviationAlertTime = Null
    /\ \E q \in BagToSet(reqs) :
          /\ q.user = lastResponse.user
          /\ q.doc.activeJourney.deviationAlertSent
          /\ q.doc.activeJourney.startedAt = Journey(lastResponse.user).startedAt

\* ------------------------------------------------------------------ C11
\* C11: once respondOkay(true) has been answered, a check-deviation call
\* received next loads the record with the alert cleared (so that, off route,
\* it takes the first-alert branch), and the step that follows the answer
\* publishes no child-deviation-alert about the traveller: none is due before
\* a new deviationAlertTime is more than 5 minutes old.
C11_NoAlertOnceConfirmed ==
    [][(lastResponse.op = "deviation-response" /\ lastResponse.res.status = 200)
       => /\ \A q \in BagToSet(reqs') :
               (/\ q.user = lastResponse.user
                /\ q.op = "check-deviation"
                /\ q.pc = "handler"
                /\ CopiesIn(q, reqs') > CopiesIn(q, reqs))
               => /\ ~q.doc.activeJourney.deviationAlertSent
                  /\ q.doc.activeJourney.deviationAlertTime = Null
          /\ \A i \in (Len(emitted) + 1) .. Len(emitted') :
               ~(/\ emitted'[i].event = "child-deviation-alert"
                 /\ emitted'[i].childId = lastResponse.user)]_vars

\* ------------------------------------------------------------------ C12
\* C12: respondOkay(false) is answered 400 in the handler itself, whatever
\* the journey is; nothing is written to the store, no write is pending
\* afterwards and no event is published.
C12_RespondNotOkayRejected ==
    [][\A r \in BagToSet(reqs) :
         (DeviationResponseHandler(r) /\ ~r.arg.isOkay)
         => /\ lastResponse' = [user |-> r.user, op |-> "deviation-response",
                                res |-> [NoRes EXCEPT !.status = 400]]
            /\ reqs' = reqs (-) SetToBag({r})
            /\ users' = users
            /\ Publishes(<<>>)]_vars

\* rejected while an alert is pending, which stays as it was
C12_Witness ==
    /\ lastResponse.op = "deviation-response"
    /\ lastResponse.res.status = 400
    /\ Journey(lastResponse.user).isActive
    /\ Journey(lastResponse.user).deviationDetected
    /\ Journey(lastResponse.user).deviationAlertSent
    /\ Journey(lastResponse.user).deviationAlertTime # Null

\* ------------------------------------------------------------------ C13
\* C13: the handler of start stamps startedAt with the current time, and the
\* write of start leaves the stored journey with isActive=true, the supplied
\* from, to and selectedRoutePath, the three deviation fields cleared and that
\* startedAt, whatever was stored before.
C13_StartReplacesJourney ==
    [][/\ \A r \in BagToSet(reqs) :
            StartHandler(r)
            => /\ users' = users
               /\ \E q \in BagToSet(reqs') :
                    /\ q.pc = "saving" /\ q.op = "start" /\ q.arg = r.arg
                    /\ q.doc.activeJourney.startedAt = now
                    /\ Continue(r, q)
       /\ \A r \in BagToSet(reqs) :
            (Save(r) /\ r.op = "start")
            => users' = [users EXCEPT ![r.user].activeJourney =
                  [ isActive           |-> TRUE,
                    from               |-> r.arg.from,
                    to                 |-> r.arg.to,
                    selectedRoutePath  |-> r.arg.selectedRoutePath,
                    deviationDetected  |-> FALSE,
                    deviationAlertSent |-> FALSE,
                    deviationAlertTime |-> Null,
                    startedAt          |-> r.doc.activeJourney.startedAt ]]]_vars

\* a start without a path has just been answered at minute 5; a call still in
\* flight holds the journey it replaced, which had a path and a pending alert
C13_Witness ==
    /\ lastResponse.op = "start"
    /\ lastResponse.res.status = 200
    /\ Journey(lastResponse.user).isActive
    /\ Journey(lastResponse.user).startedAt = 5
    /\ Journey(lastResponse.user).selectedRoutePath = <<>>
    /\ ~Journey(lastResponse.user).deviationDetected
    /\ ~Journey(lastResponse.user).deviationAlertSent
    /\ Journey(lastResponse.user).deviationAlertTime = Null
    /\ \E q \in BagToSet(reqs) :
          /\ q.user = lastResponse.user
          /\ q.pc = "handler"
          /\ q.doc.activeJourney.deviationAlertSent
          /\ q.doc.activeJourney.selectedRoutePath # <<>>

\* ------------------------------------------------------------------ C14
\* C14: the write of stop leaves the stored journey with isActive=false,
\* from, to and startedAt null, an empty selectedRoutePath and the three
\* deviation fields cleared, whatever was stored before.
C14_StopResetsJourney ==
    [][\A r \in BagToSet(reqs) :
         (Save(r) /\ r.op = "stop")
         => users' = [users EXCEPT ![r.user].activeJourney =
               [ isActive           |-> FALSE,
                 from               |-> Null,
                 to                 |-> Null,
                 selectedRoutePath  |-> <<>>,
                 deviationDetected  |-> FALSE,
                 deviationAlertSent |-> FALSE,
                 deviationAlertTime |-> Null,
                 startedAt          |-> Null ]]]_vars

\* a stop has just been answered; a call still in flight holds the active
\* journey with a pending alert that it reset
C14_Witness ==
    /\ lastResponse.op = "stop"
    /\ lastResponse.res.status = 200
    /\ ~Journey(lastResponse.user).isActive
    /\ Journey(lastResponse.user).startedAt = Null
    /\ Journey(lastResponse.user).deviationAlertTime = Null
    /\ \E q \in BagToSet(reqs) :
          /\ q.user = lastResponse.user
          /\ q.pc = "handler"
          /\ q.doc.activeJourney.isActive
          /\ q.doc.activeJourney.deviationAlertSent

\* ------------------------------------------------------------------ C15
\* C15: a check-deviation call that sees an inactive journey or an empty
\* selectedRoutePath answers onRoute=true at once for every position, writes
\* nothing (no write is pending afterwards) and publishes no event.
C15_NoRouteIsOnRoute ==
    [][\A r \in BagToSet(reqs) :
         (/\ CheckDeviationHandler(r)
          /\ \/ ~r.doc.activeJourney.isActive
             \/ r.doc.activeJourney.selectedRoutePath = <<>>)
         => /\ lastResponse'.user = r.user
            /\ lastResponse'.res.status = 200
            /\ lastResponse'.res.onRoute
            /\ ~lastResponse'.res.alertSent
            /\ ~lastResponse'.res.alertPending
            /\ ~lastResponse'.res.parentAlerted
            /\ reqs' = reqs (-) SetToBag({r})
            /\ users' = users
            /\ Publishes(<<>>)]_vars

\* answered onRoute on an active journey that has no path
C15_Witness ==
    /\ lastResponse.op = "check-deviation"
    /\ lastResponse.res.onRoute
    /\ lastResponse.res.distanceFromRoute = Null
    /\ Journey(lastResponse.user).isActive
    /\ Journey(lastResponse.user).selectedRoutePath = <<>>

\* ------------------------------------------------------- connections
\* the live connections of identity u
LiveSocketsOf(u) ==
    {s \in SocketIds : sockets[s].state = "live" /\ sockets[s].userId = u}

JourneyEvent(op) ==
    IF op = "start" THEN "child-journey-started" ELSE "child-journey-stopped"

\* ------------------------------------------------------------------ C16
\* C16: the step that completes a start or a stop answers 200; if the
\* traveller has a parent with at least one live connection it publishes
\* exactly one child-journey-started (resp. child-journey-stopped), to a live
\* connection of that parent; otherwise it publishes nothing.
C16_JourneyEventToLiveParent ==
    [][\A r \in BagToSet(reqs) :
         (StartAfterSave(r) \/ StopAfterSave(r))
         => /\ lastResponse'.res.status = 200
            /\ IF r.doc.parentId # NoUser /\ LiveSocketsOf(r.doc.parentId) # {}
               THEN \E s \in LiveSocketsOf(r.doc.parentId) :
                       Publishes(<< [event   |-> JourneyEvent(r.op),
                                     to      |-> s,
                                     childId |-> r.user] >>)
               ELSE Publishes(<<>>)]_vars

\* ------------------------------------------------------------------ C17
\* the step of request r that notifies the traveller's parent
NotifiesParent(r) ==
    \/ StartAfterSave(r)
    \/ StopAfterSave(r)
    \/ /\ CheckDeviationHandler(r)
       /\ DecidingCheck(r)
       /\ CallDistance(r) > DEVIATION_THRESHOLD
       /\ r.doc.activeJourney.deviationAlertSent
       /\ CallElapsed(r) > ESCALATION_MINUTES
       /\ r.doc.parentId # NoUser

\* C17: an event is handed over only in the notifying step of a request and
\* only to a connection that is live in that very step; a notifying step that
\* finds no connection registered for the parent publishes nothing and keeps
\* nothing of the event (the store, the registry and the connections stay as
\* they are and the request is over); a connect delivers nothing.
C17_MissedEventsAreLost ==
    [][/\ emitted' # emitted => \E r \in BagToSet(reqs) : NotifiesParent(r)
       /\ \A i \in (Len(emitted) + 1) .. Len(emitted') :
            /\ emitted'[i].to \in SocketIds
            /\ sockets[emitted'[i].to].state = "live"
       /\ \A r \in BagToSet(reqs) :
            (NotifiesParent(r) /\ ParentSocketId(r.doc.parentId) = Null)
            => /\ Publishes(<<>>)
               /\ reqs' = reqs (-) SetToBag({r})
               /\ UNCHANGED <<users, connectedUsers, sockets>>
       /\ \A u \in Users : Connect(u) => Publishes(<<>>)]_vars

\* the parent is connected now, the traveller's journey was started at
\* minute 5 and an escalation has just been answered, yet the parent has
\* been handed one event only: the start was announced while it was away
C17_Witness ==
    /\ lastResponse.op = "check-deviation"
    /\ lastResponse.res.parentAlerted
    /\ users[lastResponse.user].parentId # NoUser
    /\ LiveSocketsOf(users[lastResponse.user].parentId) # {}
    /\ Journey(lastResponse.user).startedAt = 5
    /\ Len(emitted) = 1
    /\ emitted[1].event = "child-deviation-alert"
    /\ reqs = EmptyBag

\* ------------------------------------------------------------------ C18
\* C18: a connect of X makes the new connection the registered one of X and
\* leaves every other connection as it is, live and with its rooms; the
\* entry of X changes only when X connects or a connection of X disconnects.
C18_RegisterLastWriterWins ==
    [][/\ \A u \in Users :
            Connect(u)
            => \E s \in SocketIds :
                  /\ sockets[s].state = "unused"
                  /\ sockets'[s].state = "live"
                  /\ sockets'[s].userId = u
                  /\ connectedUsers' = [connectedUsers EXCEPT ![u] = s]
                  /\ \A t \in SocketIds \ {s} : sockets'[t] = sockets[t]
       /\ \A u \in Users :
            connectedUsers'[u] # connectedUsers[u]
            => \/ Connect(u)
               \/ \E s \in LiveSocketsOf(u) : Disconnect(s)]_vars

\* two connections of p are live and enrolled; the later one is registered
C18_Witness ==
    /\ connectedUsers["p"] = 2
    /\ LiveSocketsOf("p") = {1, 2}
    /\ <<"user", "p">> \in sockets[1].rooms
    /\ <<"user", "p">> \in sockets[2].rooms

\* ------------------------------------------------------------------ C19
\* C19: every live connection of identity X is enrolled in the self channel
\* of X and in the child channel of X, whatever X's parent and children are.
C19_SelfAndOwnChildRoom ==
    \A s \in SocketIds :
       sockets[s].state = "live"
       => /\ <<"user", sockets[s].userId>> \in sockets[s].rooms
          /\ <<"child", sockets[s].userId>> \in sockets[s].rooms

\* a guardian with a child and a traveller with a parent are both connected
C19_Witness ==
    /\ LiveSocketsOf("p") # {}
    /\ LiveSocketsOf("c") # {}
    /\ users["p"].children # {}
    /\ users["c"].parentId # NoUser
    /\ \A s \in LiveSocketsOf("p") \cup LiveSocketsOf("c") :
          /\ <<"user", sockets[s].userId>> \in sockets[s].rooms
          /\ <<"child", sockets[s].userId>> \in sockets[s].rooms

\* ------------------------------------------------------------------ C20
ChildUpdateEvent(op) ==
    IF op = "app-state" THEN "child-app-state-changed" ELSE "child-battery-updated"

\* C20: when a child with parent P completes an app-state or a battery
\* update, child-app-state-changed (resp. child-battery-updated) about the
\* child is delivered to every live connection of P.
C20_ChildUpdateReachesParent ==
    [][\A r \in BagToSet(reqs) :
         ((AppStateAfterSave(r) \/ BatteryStatusAfterSave(r))
            /\ r.doc.parentId # NoUser)
         => \A s \in LiveSocketsOf(r.doc.parentId) :
               \E i \in (Len(emitted) + 1) .. Len(emitted') :
                  emitted'[i] = [event   |-> ChildUpdateEvent(r.op),
                                 to      |-> s,
                                 childId |-> r.user]]_vars

\* ---------------------------------------------------------------- links
\* POST /add from User.findOne({accountId}) to await childUser.save(), or to
\* its 400 (no displayName is supplied)
AddChildHandler(r) ==
    /\ r.pc = "handler" /\ r.op = "add-child"
    /\ LET childUser == users[r.arg.accountId]
       IN  IF childUser.parentId # NoUser \/ r.arg.accountId = r.user
           THEN Respond(r, [NoRes EXCEPT !.status = 400])
           ELSE /\ Continue(r, [r EXCEPT !.pc = "saving-child"])
                /\ lastResponse' = NoResponse
    /\ UNCHANGED <<users, connectedUsers, sockets, issued, emitted, now>>

\* POST /add: childUser.save() writes parentId; then the parent's children
\* array is extended and saved, unless it holds the child already
AddChildSaveChild(r) ==
    /\ r.pc = "saving-child" /\ r.op = "add-child"
    /\ users' = [users EXCEPT ![r.arg.accountId].parentId = r.user]
    /\ IF r.arg.accountId \in r.doc.children
       THEN Respond(r, [NoRes EXCEPT !.status = 200])
       ELSE /\ Continue(r, [r EXCEPT !.doc.children = @ \cup {r.arg.accountId},
                                     !.modified = {"children"},
                                     !.pc = "saving-parent"])
            /\ lastResponse' = NoResponse
    /\ UNCHANGED <<connectedUsers, sockets, issued, emitted, now>>

\* POST /add: req.user.save() writes children, and the response
AddChildSaveParent(r) ==
    /\ r.pc = "saving-parent" /\ r.op = "add-child"
    /\ users' = [users EXCEPT ![r.user].children = r.doc.children]
    /\ Respond(r, [NoRes EXCEPT !.status = 200])
    /\ UNCHANGED <<connectedUsers, sockets, issued, emitted, now>>

\* DELETE /children/:childId from User.findOne({_id, parentId}) to
\* await childUser.save(), or to its 404
RemoveChildHandler(r) ==
    /\ r.pc = "handler" /\ r.op = "remove-child"
    /\ IF users[r.arg.childId].parentId # r.user
       THEN Respond(r, [NoRes EXCEPT !.status = 404])
       ELSE /\ Continue(r, [r EXCEPT !.pc = "saving-child"])
            /\ lastResponse' = NoResponse
    /\ UNCHANGED <<users, connectedUsers, sockets, issued, emitted, now>>

\* DELETE /children/:childId: childUser.save() writes parentId = null
RemoveChildSaveChild(r) ==
    /\ r.pc = "saving-child" /\ r.op = "remove-child"
    /\ users' = [users EXCEPT ![r.arg.childId].parentId = NoUser]
    /\ Continue(r, [r EXCEPT !.pc = "finding-parent"])
    /\ lastResponse' = NoResponse
    /\ UNCHANGED <<connectedUsers, sockets, issued, emitted, now>>

\* DELETE /children/:childId: parentUser = await User.findById(req.user._id)
\* and the filter of its children
RemoveChildFindParent(r) ==
    /\ r.pc = "finding-parent" /\ r.op = "remove-child"
    /\ Continue(r, [r EXCEPT
                      !.doc = [users[r.user] EXCEPT
                                 !.children = @ \ {r.arg.childId}],
                      !.modified = {"children"},
                      !.pc = "saving-parent"])
    /\ lastResponse' = NoResponse
    /\ UNCHANGED <<users, connectedUsers, sockets, issued, emitted, now>>

\* DELETE /children/:childId: parentUser.save() writes children, and the
\* response
RemoveChildSaveParent(r) ==
    /\ r.pc = "saving-parent" /\ r.op = "remove-child"
    /\ users' = [users EXCEPT ![r.user].children = r.doc.children]
    /\ Respond(r, [NoRes EXCEPT !.status = 200])
    /\ UNCHANGED <<connectedUsers, sockets, issued, emitted, now>>

\* three identities, of which "c" is linked to "p" or to nobody
InitFamily ==
    /\ \E parent \in ParentsOfC :
         users = [u \in FamilyUsers |->
                   [ parentId      |-> IF u = "c" THEN parent ELSE NoUser,
                     children      |-> IF u = parent THEN {"c"} ELSE {},
                     isAppEnabled     |-> TRUE,
                     batteryLevel     |-> 100,
                     isCharging       |-> FALSE,
                     batteryUpdatedAt |-> Null,
                     currentLocation  |-> Null,
                     activeJourney |-> DefaultJourney ]]
    /\ connectedUsers = [u \in FamilyUsers |-> Null]
    /\ sockets = [s \in SocketIds |-> UnusedSocket]
    /\ reqs = EmptyBag
    /\ issued = 0
    /\ lastResponse = NoResponse
    /\ emitted = <<>>
    /\ now = 0

\* the connections, the linking routes and the app-state route
NextFamily ==
    \/ \E u \in FamilyUsers : Connect(u)
    \/ \E s \in SocketIds : Disconnect(s)
    \/ \E u \in FamilyUsers, op \in LinkOps \cup {"app-state"} :
          \E arg \in OpArgs(op) : Authenticate(u, op, arg)
    \/ \E r \in BagToSet(reqs) : AddChildHandler(r)
    \/ \E r \in BagToSet(reqs) : AddChildSaveChild(r)
    \/ \E r \in BagToSet(reqs) : AddChildSaveParent(r)
    \/ \E r \in BagToSet(reqs) : RemoveChildHandler(r)
    \/ \E r \in BagToSet(reqs) : RemoveChildSaveChild(r)
    \/ \E r \in BagToSet(reqs) : RemoveChildFindParent(r)
    \/ \E r \in BagToSet(reqs) : RemoveChildSaveParent(r)
    \/ \E r \in BagToSet(reqs) : AppStateHandler(r)
    \/ \E r \in BagToSet(reqs) : AccountSave(r)
    \/ \E r \in BagToSet(reqs) : AppStateAfterSave(r)

SpecFamily == InitFamily /\ [][NextFamily]_vars

RECURSIVE AncestorsWithin(_, _)
\* the identities reached from u by following parentId at most n times
AncestorsWithin(u, n) ==
    IF n = 0 \/ users[u].parentId = NoUser THEN {}
    ELSE {users[u].parentId} \cup AncestorsWithin(users[u].parentId, n - 1)

\* C22: in every reachable state the parent/child relation is a forest: no
\* identity is reached from itself by following parentId.
C22_ParentRelationIsForest ==
    \A u \in DOMAIN users : u \notin AncestorsWithin(u, Cardinality(DOMAIN users))

\* ------------------------------------------------------------------ C23
\* no add-child or remove-child is in progress
NoLinkInProgress == \A r \in BagToSet(reqs) : r.op \notin LinkOps

\* C23 (its conclusion): whenever no add-child or remove-child is in
\* progress, an identity is in the children list of at most one identity,
\* as it must be if C is in the children list of P exactly when C's
\* parentId is P.
C23_ChildOfAtMostOneParent ==
    NoLinkInProgress
    => \A c \in DOMAIN users :
          Cardinality({p \in DOMAIN users : c \in users[p].children}) <= 1

\* ------------------------------------------------------------- location
\* PUT /location up to await req.user.save(), or its 400; the stored
\* location is its latitude
LocationHandler(r) ==
    /\ r.pc = "handler" /\ r.op = "location"
    /\ IF ~validateCoordinates("number", r.arg.latitude)
       THEN Respond(r, [NoRes EXCEPT !.status = 400])
       ELSE /\ Continue(r, [r EXCEPT !.doc.currentLocation = r.arg.latitude,
                                     !.modified = {"currentLocation"},
                                     !.pc = "saving"])
            /\ lastResponse' = NoResponse
    /\ UNCHANGED <<users, connectedUsers, sockets, issued, emitted, now>>

\* PUT /location after the await: the response
LocationAfterSave(r) ==
    /\ r.pc = "saved" /\ r.op = "location"
    /\ Respond(r, [NoRes EXCEPT !.status = 200])
    /\ UNCHANGED <<users, connectedUsers, sockets, issued, emitted, now>>

\* the request bodies of the two identities when every route is open
OwnerArgs(op) ==
    IF op = "start" THEN {a \in OpArgs(op) : a.selectedRoutePath # <<>>}
    ELSE IF op = "check-deviation" THEN {a \in OpArgs(op) : a.currentLat = 250}
    ELSE IF op = "deviation-response" THEN {a \in OpArgs(op) : a.isOkay}
    ELSE IF op = "app-state" THEN {a \in OpArgs(op) : ~a.isAppEnabled}
    ELSE OpArgs(op)

\* the journey routes, the account routes and the connections, open to
\* both identities
NextOwner ==
    \/ \E u \in Users : Connect(u)
    \/ \E s \in SocketIds : Disconnect(s)
    \/ \E u \in Users, op \in Ops \cup AccountOps \cup {"location"} :
          \E arg \in OwnerArgs(op) : Authenticate(u, op, arg)
    \/ \E r \in BagToSet(reqs) : StartHandler(r)
    \/ \E r \in BagToSet(reqs) : StopHandler(r)
    \/ \E r \in BagToSet(reqs) : DeviationResponseHandler(r)
    \/ \E r \in BagToSet(reqs) : CheckDeviationHandler(r)
    \/ \E r \in BagToSet(reqs) : Save(r)
    \/ \E r \in BagToSet(reqs) : StartAfterSave(r)
    \/ \E r \in BagToSet(reqs) : StopAfterSave(r)
    \/ \E r \in BagToSet(reqs) : DeviationResponseSave(r)
    \/ \E r \in BagToSet(reqs) : CheckDeviationSave(r)
    \/ \E r \in BagToSet(reqs) : AppStateHandler(r)
    \/ \E r \in BagToSet(reqs) : BatteryStatusHandler(r)
    \/ \E r \in BagToSet(reqs) : LocationHandler(r)
    \/ \E r \in BagToSet(reqs) : AccountSave(r)
    \/ \E r \in BagToSet(reqs) : AppStateAfterSave(r)
    \/ \E r \in BagToSet(reqs) : BatteryStatusAfterSave(r)
    \/ \E r \in BagToSet(reqs) : LocationAfterSave(r)
    \/ Tick

\* the stored users in which "p" is the parent of "c"
InitOwner == Init /\ users["c"].parentId = "p"

SpecOwner == InitOwner /\ [][NextOwner]_vars

\* ------------------------------------------------------------- failures
\* coordinate values a request body can carry that are not a latitude
InvalidCoordinates ==
    { [kind |-> "missing",        value |-> Null],
      [kind |-> "text",           value |-> Null],
      [kind |-> "numeric-string", value |-> 0],
      [kind |-> "number",         value |-> 2 * MAX_LATITUDE] }

\* request bodies of /start and /check-deviation with such a value
InvalidArgs(op) ==
    IF op = "start"
    THEN {[NoArg EXCEPT !.from = x.value, !.fromKind = x.kind, !.to = t,
                        !.selectedRoutePath = <<0, 500>>] :
             x \in InvalidCoordinates, t \in ToPoints}
           \cup
         {[NoArg EXCEPT !.from = f, !.to = x.value, !.toKind = x.kind,
                        !.selectedRoutePath = <<0, 500>>] :
             f \in FromPoints,
             x \in {y \in InvalidCoordinates : y.kind = "number"}}
    ELSE {[NoArg EXCEPT !.currentLat = x.value, !.currentLatKind = x.kind] :
             x \in InvalidCoordinates}

SaveFails_Applied(r) ==
    /\ r.pc = "saving" /\ r.op \in Ops
    /\ users' = [users EXCEPT ![r.user].activeJourney =
                   SavedJourney(@, r.doc.activeJourney, r.modified)]
    /\ Respond(r, [NoRes EXCEPT !.status = 500])
    /\ UNCHANGED <<connectedUsers, sockets, issued, emitted, now>>

\* await req.user.save() rejects: the catch block answers 500
SaveFails(r) ==
    /\ r.pc = "saving" /\ r.op \in Ops
    /\ Respond(r, [NoRes EXCEPT !.status = 500])
    /\ UNCHANGED <<users, connectedUsers, sockets, issued, emitted, now>>

\* the journey routes with invalid request bodies and failing writes
NextRobust ==
    \/ Next
    \/ \E u \in Travellers, op \in {"start", "check-deviation"} :
          \E arg \in InvalidArgs(op) : Authenticate(u, op, arg)
    \/ \E r \in BagToSet(reqs) : SaveFails(r)

SpecRobust == Init /\ [][NextRobust]_vars

\* --------------------------------------------------------------- nearby
\* the truth value JavaScript gives a latitude (undefined and 0 are falsy)
Truthy(latitude) == latitude # Null /\ latitude # 0

\* User.find of /nearby/users: not the requester, app enabled, a stored
\* latitude; in the order of the store
NearbyQuery(requester) ==
    SelectSeq(UserOrder, LAMBDA id :
        /\ id # requester
        /\ users[id].isAppEnabled
        /\ users[id].currentLocation # Null)

RECURSIVE NearbyLoop(_, _, _)
\* the for loop of /nearby/users
NearbyLoop(latitude, radiusKm, allUsers) ==
    IF allUsers = <<>> THEN <<>>
    ELSE LET user     == Head(allUsers)
             location == users[user].currentLocation
             distance == calculateDistance(latitude, location)
         IN  (IF Truthy(location) /\ distance <= radiusKm
              THEN << [userId |-> user, distance |-> distance] >>
              ELSE <<>>)
               \o NearbyLoop(latitude, radiusKm, Tail(allUsers))

RECURSIVE InsertByDistance(_, _)
InsertByDistance(sorted, x) ==
    IF sorted = <<>> THEN << x >>
    ELSE IF x.distance < Head(sorted).distance THEN << x >> \o sorted
    ELSE << Head(sorted) >> \o InsertByDistance(Tail(sorted), x)

RECURSIVE SortByDistance(_)
\* nearbyUsers.sort((a, b) => a.distance - b.distance), a stable sort
SortByDistance(nearbyUsers) ==
    IF nearbyUsers = <<>> THEN <<>>
    ELSE InsertByDistance(
             SortByDistance(SubSeq(nearbyUsers, 1, Len(nearbyUsers) - 1)),
             nearbyUsers[Len(nearbyUsers)])

\* POST /nearby/users up to await User.find, or its 400
NearbyHandler(r) ==
    /\ r.pc = "handler" /\ r.op = "nearby"
    /\ IF ~Truthy(r.doc.currentLocation)
       THEN Respond(r, [NoRes EXCEPT !.status = 400])
       ELSE /\ Continue(r, [r EXCEPT !.pc = "finding"])
            /\ lastResponse' = NoResponse
    /\ UNCHANGED <<users, connectedUsers, sockets, issued, emitted, now>>

\* POST /nearby/users from the result of User.find to the response
NearbyFind(r) ==
    /\ r.pc = "finding" /\ r.op = "nearby"
    /\ Respond(r, [NoRes EXCEPT
                     !.status = 200,
                     !.nearbyUsers =
                         SortByDistance(NearbyLoop(r.arg.latitude, r.arg.radiusKm,
                                                   NearbyQuery(r.user)))])
    /\ UNCHANGED <<users, connectedUsers, sockets, issued, emitted, now>>

\* `sos_${req.user._id}_${Date.now()}`
AlertId(userId, t) == <<userId, t>>

\* parseFloat(distance.toFixed(2)): kilometres with two decimals, that is
\* metres rounded to the nearest ten
RoundedDistance(distance) == ((distance + 5) \div 10) * 10

SosQuery_WithDisabled(requester) ==
    SelectSeq(UserOrder, LAMBDA id :
        /\ id # requester
        /\ users[id].currentLocation # Null)

\* User.find of /sos-broadcast
SosQuery(requester) ==
    SelectSeq(UserOrder, LAMBDA id :
        /\ id # requester
        /\ users[id].isAppEnabled
        /\ users[id].currentLocation # Null)

RECURSIVE SosLoop(_, _)
\* the for loop of /sos-broadcast: the users to alert, with their distance
SosLoop(latitude, allUsers) ==
    IF allUsers = <<>> THEN <<>>
    ELSE LET user     == Head(allUsers)
             location == users[user].currentLocation
             distance == calculateDistance(latitude, location)
         IN  (IF Truthy(location) /\ distance <= SOS_RADIUS
              THEN << [userId |-> user, distance |-> distance] >>
              ELSE <<>>)
               \o SosLoop(latitude, Tail(allUsers))

RECURSIVE SosToSockets(_, _, _, _)
SosToSockets(members, reporter, alertId, distance) ==
    IF members = {} THEN <<>>
    ELSE LET s == CHOOSE m \in members : \A n \in members : m <= n
         IN  << [event |-> "nearby-sos-alert", to |-> s, childId |-> reporter,
                 alertId |-> alertId, distance |-> distance] >>
               \o SosToSockets(members \ {s}, reporter, alertId, distance)

RECURSIVE EmitSos(_, _, _)
\* io.to(`user:${user._id}`).emit('nearby-sos-alert', alertWithDistance) for
\* each user of the loop; childId holds the reporter's id
EmitSos(alerted, reporter, alertId) ==
    IF alerted = <<>> THEN <<>>
    ELSE SosToSockets(RoomMembers(<<"user", Head(alerted).userId>>), reporter,
                      alertId, RoundedDistance(Head(alerted).distance))
           \o EmitSos(Tail(alerted), reporter, alertId)

\* the ids of a list of users with distances
UserIds(list) == [i \in 1 .. Len(list) |-> list[i].userId]

\* POST /sos-broadcast up to await User.find
SosHandler(r) ==
    /\ r.pc = "handler" /\ r.op = "sos-broadcast"
    /\ Continue(r, [r EXCEPT !.alertId = AlertId(r.user, now),
                             !.pc = "finding"])
    /\ lastResponse' = NoResponse
    /\ UNCHANGED <<users, connectedUsers, sockets, issued, emitted, now>>

\* POST /sos-broadcast from the result of User.find to the response
SosFind(r) ==
    /\ r.pc = "finding" /\ r.op = "sos-broadcast"
    /\ LET alerted == SosLoop(r.arg.latitude, SosQuery(r.user))
       IN  /\ emitted' = emitted \o EmitSos(alerted, r.user, r.alertId)
           /\ Respond(r, [NoRes EXCEPT !.status = 200,
                                       !.alertId = r.alertId,
                                       !.nearbyUserIds = UserIds(alerted)])
    /\ UNCHANGED <<users, connectedUsers, sockets, issued, now>>

\* three unlinked identities with any stored location and app state; "c"
\* is the one that asks
InitNearby ==
    /\ \E lp \in Locations, lq \in Locations, lc \in ReporterLocations,
          ep \in BOOLEAN, eq \in BOOLEAN :
         users = [u \in FamilyUsers |->
                   [ parentId      |-> NoUser,
                     children      |-> {},
                     isAppEnabled     |-> IF u = "p" THEN ep
                                          ELSE IF u = "q" THEN eq ELSE TRUE,
                     batteryLevel     |-> 100,
                     isCharging       |-> FALSE,
                     batteryUpdatedAt |-> Null,
                     currentLocation  |-> IF u = "p" THEN lp
                                          ELSE IF u = "q" THEN lq ELSE lc,
                     activeJourney |-> DefaultJourney ]]
    /\ connectedUsers = [u \in FamilyUsers |-> Null]
    /\ sockets = [s \in SocketIds |-> UnusedSocket]
    /\ reqs = EmptyBag
    /\ issued = 0
    /\ lastResponse = NoResponse
    /\ emitted = <<>>
    /\ now = 0

\* the connections and the two nearby routes
NextNearby ==
    \/ \E u \in FamilyUsers : Connect(u)
    \/ \E s \in SocketIds : Disconnect(s)
    \/ \E u \in Reporters, op \in NearbyOps :
          \E arg \in OpArgs(op) : Authenticate(u, op, arg)
    \/ \E r \in BagToSet(reqs) : NearbyHandler(r)
    \/ \E r \in BagToSet(reqs) : NearbyFind(r)
    \/ \E r \in BagToSet(reqs) : SosHandler(r)
    \/ \E r \in BagToSet(reqs) : SosFind(r)
    \/ Tick

SpecNearby == InitNearby /\ [][NextNearby]_vars

\* the position of an identity in the snapshot
OrderOf(u) == CHOOSE i \in 1 .. Len(UserOrder) : UserOrder[i] = u

\* the events published by the step
Published == SubSeq(emitted', Len(emitted) + 1, Len(emitted'))

\* ------------------------------------------------------------------ C24
\* C24: a nearby search returns exactly the identities that are not the
\* requester, have the app enabled, have a stored location (whatever its
\* coordinates) and lie within radiusKm of the origin, boundary included,
\* in ascending order of distance, equal distances in snapshot order.
C24_NearbyReturnsAllInRadius ==
    [][\A r \in BagToSet(reqs) : NearbyFind(r) =>
         LET nearbyUsers == lastResponse'.res.nearbyUsers
         IN  /\ {nearbyUsers[i].userId : i \in 1 .. Len(nearbyUsers)}
                  = {u \in DOMAIN users :
                       /\ u # r.user
                       /\ users[u].isAppEnabled
                       /\ users[u].currentLocation # Null
                       /\ calculateDistance(r.arg.latitude,
                                            users[u].currentLocation)
                            <= r.arg.radiusKm}
             /\ \A i, j \in 1 .. Len(nearbyUsers) : i < j =>
                  \/ nearbyUsers[i].distance < nearbyUsers[j].distance
                  \/ /\ nearbyUsers[i].distance = nearbyUsers[j].distance
                     /\ OrderOf(nearbyUsers[i].userId)
                          < OrderOf(nearbyUsers[j].userId)]_vars

\* ------------------------------------------------------------------ C25
\* C25: an SOS broadcast publishes nearby-sos-alert to exactly the
\* identities a nearby search returns for the same origin, the same users
\* and a radius of 5 km: once to each of them (each of its connections
\* receives it once), with that identity's own distance, and never to the
\* reporter, to a disabled identity or to one farther than 5 km.
C25_SosReachesNearbyResult ==
    [][\A r \in BagToSet(reqs) : SosFind(r) =>
         LET found == SortByDistance(NearbyLoop(r.arg.latitude, SOS_RADIUS,
                                                NearbyQuery(r.user)))
             ids   == {found[k].userId : k \in 1 .. Len(found)}
             nearbyUserIds == lastResponse'.res.nearbyUserIds
         IN  /\ {nearbyUserIds[i] : i \in 1 .. Len(nearbyUserIds)} = ids
             /\ Len(nearbyUserIds) = Cardinality(ids)
             /\ \A k \in 1 .. Len(found) :
                  \A s \in LiveSocketsOf(found[k].userId) :
                    Cardinality({i \in 1 .. Len(Published) :
                                   Published[i].to = s}) = 1
             /\ \A i \in 1 .. Len(Published) :
                  LET to == sockets[Published[i].to].userId
                  IN  /\ Published[i].event = "nearby-sos-alert"
                      /\ to # r.user
                      /\ users[to].isAppEnabled
                      /\ calculateDistance(r.arg.latitude,
                                           users[to].currentLocation)
                           <= SOS_RADIUS
                      /\ \E k \in 1 .. Len(found) :
                           /\ found[k].userId = to
                           /\ Published[i].distance
                                = RoundedDistance(found[k].distance)]_vars

\* an SOS has just reached the connected "p" at the boundary of the radius
\* while "q", connected too, lies farther and got nothing
C25_Witness ==
    /\ lastResponse.op = "sos-broadcast"
    /\ lastResponse.res.status = 200
    /\ lastResponse.res.nearbyUserIds = << "p" >>
    /\ users["p"].currentLocation = 6000
    /\ users["q"].currentLocation = 7000
    /\ users["q"].isAppEnabled
    /\ LiveSocketsOf("q") # {}
    /\ \E i \in 1 .. Len(emitted) :
         /\ emitted[i].event = "nearby-sos-alert"
         /\ emitted[i].to \in LiveSocketsOf("p")
         /\ emitted[i].distance = 5000
    /\ \A i \in 1 .. Len(emitted) : emitted[i].to \notin LiveSocketsOf("q")

\* ------------------------------------------------------------------ C26
\* C26: the ids an SOS broadcast returns (and counts) are those of
\* recipients that were notified: an identity with no live connection is
\* not listed.
C26_SosListsOnlyNotified ==
    [][\A r \in BagToSet(reqs) : SosFind(r) =>
         LET nearbyUserIds == lastResponse'.res.nearbyUserIds
         IN  /\ lastResponse'.res.status = 200
             /\ \A k \in 1 .. Len(nearbyUserIds) :
                  \E i \in 1 .. Len(Published) :
                    /\ Published[i].event = "nearby-sos-alert"
                    /\ Published[i].to \in LiveSocketsOf(nearbyUserIds[k])]_vars

\* ------------------------------------------------------------------ C27
\* C27: two SOS broadcasts never get the same alert identifier, even when
\* both are made by one reporter within one clock reading.
C27_AlertIdsDiffer ==
    \A r \in BagToSet(reqs) :
      (r.op = "sos-broadcast" /\ r.pc = "finding") =>
         /\ CopiesIn(r, reqs) = 1
         /\ \A q \in BagToSet(reqs) :
              (q # r /\ q.op = "sos-broadcast" /\ q.pc = "finding")
                 => q.alertId # r.alertId
         /\ (lastResponse.op = "sos-broadcast")
                 => lastResponse.res.alertId # r.alertId

\* ------------------------------------------------------------------ C28
\* a coordinate of a request body that is missing, not a number or out of
\* range
BadCoordinate(kind, value) ==
    \/ kind # "number"
    \/ value < 0 - MAX_LATITUDE
    \/ value > MAX_LATITUDE

InvalidInput(r) ==
    \/ r.op = "start" /\ (\/ BadCoordinate(r.arg.fromKind, r.arg.from)
                          \/ BadCoordinate(r.arg.toKind, r.arg.to))
    \/ r.op = "check-deviation"
         /\ BadCoordinate(r.arg.currentLatKind, r.arg.currentLat)

\* C28: a start or a deviation check whose coordinates are missing, not
\* numbers or out of range is answered 400 at once: no stored record
\* changes, nothing is published and the request is over.
C28_InvalidInputRejected ==
    [][\A r \in BagToSet(reqs) :
         ((StartHandler(r) \/ CheckDeviationHandler(r)) /\ InvalidInput(r)) =>
            /\ lastResponse' = [user |-> r.user, op |-> r.op,
                                res |-> [NoRes EXCEPT !.status = 400]]
            /\ users' = users
            /\ emitted' = emitted
            /\ reqs' = reqs (-) SetToBag({r})]_vars

\* a deviation check with an invalid position has just been refused while
\* the traveller is off an active route with the parent connected
C28_Witness ==
    /\ lastResponse.op = "check-deviation"
    /\ lastResponse.res.status = 400
    /\ users["c"].activeJourney.isActive
    /\ users["c"].activeJourney.selectedRoutePath # <<>>
    /\ ~users["c"].activeJourney.deviationAlertSent
    /\ users["c"].parentId = "p"
    /\ connectedUsers["p"] # Null
    /\ emitted = <<>>

\* ------------------------------------------------------------------ C29
\* the call of r reaches its await req.user.save() in this step
ReachesSave(r) ==
    /\ \/ StartHandler(r) \/ StopHandler(r)
       \/ DeviationResponseHandler(r) \/ CheckDeviationHandler(r)
    /\ \E q \in BagToSet(reqs') : q.pc = "saving" /\ CopiesIn(q, reqs') > CopiesIn(q, reqs)

\* C29: when the write of a start, a stop, a deviation response or a first
\* alert fails, the call answers 500 and is over, no event is published
\* and the stored records are as they were: nothing was stored or
\* published on the way to the write either.
C29_FailedWriteChangesNothing ==
    [][\A r \in BagToSet(reqs) :
         /\ SaveFails(r) =>
              /\ lastResponse' = [user |-> r.user, op |-> r.op,
                                  res |-> [NoRes EXCEPT !.status = 500]]
              /\ users' = users
              /\ emitted' = emitted
              /\ reqs' = reqs (-) SetToBag({r})
         /\ ReachesSave(r) => users' = users /\ emitted' = emitted]_vars

\* a start has just failed at its write: the journey is still the stored
\* inactive one and the connected parent got nothing
C29_Witness ==
    /\ lastResponse.op = "start"
    /\ lastResponse.res.status = 500
    /\ ~users["c"].activeJourney.isActive
    /\ users["c"].parentId = "p"
    /\ connectedUsers["p"] # Null
    /\ emitted = <<>>

\* ------------------------------------------------------------------ C30
\* C30: a stored journey changes only in the write of a journey call of
\* its owner, and it goes from inactive to active only in the write of
\* its owner's start: no deviation check, response, stop, location,
\* battery or app-state update, connect or disconnect activates it, and no
\* call of another identity touches it.
C30_OnlyOwnersStartActivates ==
    [][\A u \in DOMAIN users :
         /\ users'[u].activeJourney # users[u].activeJourney =>
              \E r \in BagToSet(reqs) :
                /\ r.user = u
                /\ Save(r) \/ DeviationResponseSave(r) \/ CheckDeviationSave(r)
         /\ (~users[u].activeJourney.isActive /\ users'[u].activeJourney.isActive) =>
              \E r \in BagToSet(reqs) :
                r.user = u /\ r.op = "start" /\ Save(r)]_vars

\* "c" has just started a journey that a call of "c" still in flight read
\* as inactive, after "p" stored a location of its own; p's journey is the
\* one it always had
C30_Witness ==
    /\ lastResponse = [user |-> "c", op |-> "start",
                       res |-> [NoRes EXCEPT !.status = 200]]
    /\ users["c"].activeJourney.isActive
    /\ \E q \in BagToSet(reqs) :
         q.user = "c" /\ ~q.doc.activeJourney.isActive
    /\ users["p"].currentLocation # Null
    /\ users["p"].activeJourney = DefaultJourney

\* ------------------------------------------------------------------ C31
\* C31: the distance a deviation check compares with the threshold and
\* reports is the least distance from the current position to a vertex of
\* the selected path (vertices only); with no path the check reports
\* on-route and no distance.
C31_DistanceIsVertexMinimum ==
    [][\A r \in BagToSet(reqs) :
         ((CheckDeviationHandler(r) \/ CheckDeviationSave(r))
            /\ lastResponse'.op = "check-deviation"
            /\ lastResponse'.res.status = 200) =>
           LET journey == r.doc.activeJourney
               path    == journey.selectedRoutePath
               res     == lastResponse'.res
               D == {calculateDistance(r.arg.currentLat, path[i]) :
                       i \in 1 .. Len(path)}
           IN  IF ~journey.isActive \/ path = <<>>
               THEN res.onRoute /\ res.distanceFromRoute = Null
               ELSE /\ res.distanceFromRoute \in D
                    /\ \A d \in D : res.distanceFromRoute <= d
                    /\ res.onRoute <=> res.distanceFromRoute <= DEVIATION_THRESHOLD]_vars

\* a check half-way between the two vertices of the path, on the segment
\* itself, has just been answered as 250 m off the route
C31_Witness ==
    /\ lastResponse.op = "check-deviation"
    /\ lastResponse.res.status = 200
    /\ lastResponse.res.distanceFromRoute = 250
    /\ ~lastResponse.res.onRoute
    /\ users["c"].activeJourney.selectedRoutePath = <<0, 500>>
    /\ users["c"].activeJourney.isActive

\* ------------------------------------------------------------------ C32
\* C32: when a traveller on an active journey with a path has stored a new
\* location, the journey record is the one a deviation check at that
\* position would have left: off the route with no alert sent yet, the
\* first alert is recorded by the time the update is answered.
C32_LocationUpdateEvaluatesDeviation ==
    [][\A r \in BagToSet(reqs) : LocationAfterSave(r) =>
         LET journey == users[r.user].activeJourney
         IN  (/\ journey.isActive
              /\ journey.selectedRoutePath # <<>>
              /\ IsOffRoute(minDistanceToPath(r.arg.latitude,
                                              journey.selectedRoutePath))
              /\ ~journey.deviationAlertSent)
               => /\ users'[r.user].activeJourney.deviationDetected
                  /\ users'[r.user].activeJourney.deviationAlertSent]_vars

\* ------------------------------------------------------------------ C33
\* C33: once the first alert is recorded at time t, a deviation check
\* never restarts the window: a check that finds the traveller back on the
\* route answers on-route and leaves the record, t included, as it is, and
\* a check that finds the traveller off the route later than t + 5 minutes
\* publishes child-deviation-alert to the registered parent; neither
\* records a new first alert.
C33_ReturnKeepsEscalationWindow ==
    [][\A r \in BagToSet(reqs) :
         (/\ CheckDeviationHandler(r)
          /\ DecidingCheck(r)
          /\ r.doc.activeJourney.deviationAlertSent
          /\ r.doc.activeJourney.deviationAlertTime # Null)
         => /\ users' = users
            /\ reqs' = reqs (-) SetToBag({r})
            /\ lastResponse'.user = r.user
            /\ ~lastResponse'.res.alertSent
            /\ CallDistance(r) <= DEVIATION_THRESHOLD
                 => lastResponse'.res.onRoute /\ Publishes(<<>>)
            /\ (/\ CallDistance(r) > DEVIATION_THRESHOLD
                /\ CallElapsed(r) > ESCALATION_MINUTES
                /\ ParentSocketId(r.doc.parentId) # Null)
                 => /\ lastResponse'.res.parentAlerted
                    /\ Publishes(<< DeviationAlert(connectedUsers[r.doc.parentId],
                                                   r.user) >>)]_vars

\* six minutes after the first alert of instant 0 a check has just
\* escalated to the connected parent, for the first time, on the record
\* that still carries instant 0
C33_Witness ==
    /\ lastResponse.op = "check-deviation"
    /\ lastResponse.res.parentAlerted
    /\ now = 6
    /\ Journey("c").deviationAlertSent
    /\ Journey("c").deviationDetected
    /\ Journey("c").deviationAlertTime = 0
    /\ Len(emitted) = 1
    /\ emitted[1] = DeviationAlert(connectedUsers["p"], "c")
    /\ connectedUsers["p"] # Null

\* ------------------------------------------------------------------ C34
\* C34: a stored journey that is not active carries no deviation state:
\* both flags are false and there is no alert time.
C34_InactiveJourneyHasNoDeviation ==
    \A u \in DOMAIN users :
       ~Journey(u).isActive =>
          /\ ~Journey(u).deviationDetected
          /\ ~Journey(u).deviationAlertSent
          /\ Journey(u).deviationAlertTime = Null

\* ------------------------------------------------------------------ C35
\* C35: the registry holds no dangling handle: the socket it returns for an
\* identity is a live connection of that identity.
C35_NoDanglingHandle ==
    \A u \in DOMAIN connectedUsers :
       connectedUsers[u] # Null =>
          /\ sockets[connectedUsers[u]].state = "live"
          /\ sockets[connectedUsers[u]].userId = u

\* "p" is registered with a live connection after another connection has
\* been closed
C35_Witness ==
    /\ connectedUsers["p"] # Null
    /\ sockets[connectedUsers["p"]].state = "live"
    /\ \E s \in SocketIds : sockets[s].state = "closed"

\* ------------------------------------------------------------------ C36
\* C36: child-battery-updated and child-app-state-changed about a child are
\* delivered only to connections of the child's current parent, never to
\* the child itself, a sibling or anyone else.
C36_ChildUpdateOnlyToParent ==
    [][\A i \in 1 .. Len(Published) :
         Published[i].event \in {"child-battery-updated",
                                 "child-app-state-changed"}
           => sockets[Published[i].to].userId
                = users[Published[i].childId].parentId]_vars

\* ------------------------------------------------------------------ C37
\* C37: parent-app-state-changed is delivered only to connections of the
\* updater's current children; a connection of anyone else, such as a
\* former parent of one of them that is still enrolled in the child's
\* channel, receives nothing.
C37_ParentUpdateOnlyToChildren ==
    [][\A i \in 1 .. Len(Published) :
         Published[i].event = "parent-app-state-changed"
           => users[sockets[Published[i].to].userId].parentId
                = Published[i].childId]_vars

\* ------------------------------------------------------------- contacts
\* user.emergencyContacts.find(c => c.id === id): the first index, or 0
FindContact(contacts, id) ==
    IF \E i \in 1 .. Len(contacts) : contacts[i].id = id
    THEN CHOOSE i \in 1 .. Len(contacts) :
            /\ contacts[i].id = id
            /\ \A j \in 1 .. i - 1 : contacts[j].id # id
    ELSE 0

\* POST /contacts from User.findById to await user.save(), or to its 400
AddContactHandler(r) ==
    /\ r.pc = "handler" /\ r.op = "add-contact"
    /\ LET user == users[r.user]
       IN  IF FindContact(user.emergencyContacts, r.arg.id) # 0
           THEN Respond(r, [NoRes EXCEPT !.status = 400])
           ELSE /\ Continue(r, [r EXCEPT
                      !.doc = [user EXCEPT !.emergencyContacts =
                                 Append(@, [id |-> r.arg.id, name |-> r.arg.name])],
                      !.modified = {"push"},
                      !.pc = "saving"])
                /\ lastResponse' = NoResponse
    /\ UNCHANGED <<users, connectedUsers, sockets, issued, emitted, now>>

\* PUT /contacts/sync from User.findById to await user.save()
SyncContactsHandler(r) ==
    /\ r.pc = "handler" /\ r.op = "sync-contacts"
    /\ Continue(r, [r EXCEPT
          !.doc = [users[r.user] EXCEPT !.emergencyContacts = r.arg.contacts],
          !.modified = {"set"},
          !.pc = "saving"])
    /\ lastResponse' = NoResponse
    /\ UNCHANGED <<users, connectedUsers, sockets, issued, emitted, now>>

\* PUT /contacts/:contactId from User.findById to await user.save(), or to
\* its 404
UpdateContactHandler(r) ==
    /\ r.pc = "handler" /\ r.op = "update-contact"
    /\ LET user  == users[r.user]
           index == FindContact(user.emergencyContacts, r.arg.id)
       IN  IF index = 0
           THEN Respond(r, [NoRes EXCEPT !.status = 404])
           ELSE /\ Continue(r, [r EXCEPT
                      !.doc = [user EXCEPT
                                 !.emergencyContacts[index].name = r.arg.name],
                      !.modified = {"name"},
                      !.pc = "saving"])
                /\ lastResponse' = NoResponse
    /\ UNCHANGED <<users, connectedUsers, sockets, issued, emitted, now>>

\* DELETE /contacts/:contactId from User.findById to await user.save()
DeleteContactHandler(r) ==
    /\ r.pc = "handler" /\ r.op = "delete-contact"
    /\ Continue(r, [r EXCEPT
          !.doc = [users[r.user] EXCEPT !.emergencyContacts =
                     SelectSeq(@, LAMBDA c : c.id # r.arg.id)],
          !.modified = {"set"},
          !.pc = "saving"])
    /\ lastResponse' = NoResponse
    /\ UNCHANGED <<users, connectedUsers, sockets, issued, emitted, now>>

\* what the store holds after save() of a contacts call: a pushed contact
\* is appended to the stored array, an assigned array replaces it, and an
\* updated name is written at the index of the contact in the loaded array
SavedContacts(stored, doc, modified, id) ==
    IF "push" \in modified THEN Append(stored, doc[Len(doc)])
    ELSE IF "set" \in modified THEN doc
    ELSE LET index == FindContact(doc, id)
         IN  IF index <= Len(stored)
             THEN [stored EXCEPT ![index].name = doc[index].name]
             ELSE stored

\* await user.save() of the four contacts routes, and the response
ContactSave(r) ==
    /\ r.pc = "saving" /\ r.op \in ContactOps
    /\ users' = [users EXCEPT ![r.user].emergencyContacts =
                   SavedContacts(@, r.doc.emergencyContacts, r.modified,
                                 r.arg.id)]
    /\ Respond(r, [NoRes EXCEPT !.status = 200])
    /\ UNCHANGED <<connectedUsers, sockets, issued, emitted, now>>

\* the users with the contacts an earlier run has stored for "c"
InitContacts ==
    /\ \E contacts \in StoredContacts :
         users = [u \in Users |->
                   [ parentId      |-> NoUser,
                     children      |-> {},
                     isAppEnabled     |-> TRUE,
                     batteryLevel     |-> 100,
                     isCharging       |-> FALSE,
                     batteryUpdatedAt |-> Null,
                     currentLocation  |-> Null,
                     activeJourney    |-> DefaultJourney,
                     emergencyContacts |-> IF u = "c" THEN contacts ELSE <<>> ]]
    /\ connectedUsers = [u \in Users |-> Null]
    /\ sockets = [s \in SocketIds |-> UnusedSocket]
    /\ reqs = EmptyBag
    /\ issued = 0
    /\ lastResponse = NoResponse
    /\ emitted = <<>>
    /\ now = 0

\* the four contacts routes
NextContacts ==
    \/ \E u \in Travellers, op \in ContactOps :
          \E arg \in OpArgs(op) : Authenticate(u, op, arg)
    \/ \E r \in BagToSet(reqs) : AddContactHandler(r)
    \/ \E r \in BagToSet(reqs) : SyncContactsHandler(r)
    \/ \E r \in BagToSet(reqs) : UpdateContactHandler(r)
    \/ \E r \in BagToSet(reqs) : DeleteContactHandler(r)
    \/ \E r \in BagToSet(reqs) : ContactSave(r)

SpecContacts == InitContacts /\ [][NextContacts]_vars

\* ------------------------------------------------------------------ C38
\* C38: no two emergency contacts of a user have the same id, whatever
\* contacts calls the user has made.
C38_ContactIdsUnique ==
    \A u \in DOMAIN users :
       \A i, j \in 1 .. Len(users[u].emergencyContacts) :
          users[u].emergencyContacts[i].id = users[u].emergencyContacts[j].id
             => i = j
====
